---- MODULE Spec2Model ----
(***************************************************************************)
(* Okta MCP server: cursor pagination helpers (utils/pagination.py), the   *)
(* elicitation mediator (utils/elicitation.py), ID validation              *)
(* (utils/validation.py), the destructive tool handlers and list tools of *)
(* tools/, and the token check of utils/auth/auth_manager.py.              *)
(*                                                                         *)
(* Six specifications share the module:                                   *)
(*   Spec      one tool invocation at a time, stepped at its suspension    *)
(*             points (capability probe, ctx.elicit, get_okta_client, the  *)
(*             Okta call);                                                 *)
(*   SpecPage  the pagination helpers applied to bounded inputs;           *)
(*   SpecFetch paginate_all_results and get_logs / paginate_system_logs,   *)
(*             stepped at their awaits, against the same page responses;   *)
(*   SpecGroups list_groups and the paginate_all_results it awaits;        *)
(*   SpecCall  the limit clamping of the list tools, extract_after_cursor  *)
(*             and validate_okta_id, each applied to bounded arguments;    *)
(*   SpecAuth  OktaAuthManager.is_valid_token, stepped at its await.       *)
(***************************************************************************)
EXTENDS Integers, Sequences, FiniteSets, TLC

VARIABLES
    \* ---- one tool invocation (Spec) ----
    pc,             \* position of the running handler
    tool,           \* name of the invoked tool
    id_arg,         \* the ID argument (user_id / group_id / app_id / policy_id)
    confirmation,   \* the confirmation argument of the confirm_* tools
    ctx,            \* the caller's Context: capability record and ctx.elicit behaviour
    okta,           \* how the Okta side answers this invocation
    outcome,        \* ElicitationOutcome returned by elicit_or_fallback, or NoOutcome
    elicit_calls,   \* number of ctx.elicit exchanges issued in this invocation
    client_gets,    \* number of get_okta_client calls in this invocation
    okta_calls,     \* sequence of Okta API calls made in this invocation
    result,         \* what the tool returned, or NoResult
    auto_confirm_on_fallback, \* policy argument handed to elicit_or_fallback
    fallback_payload,         \* fallback_payload argument handed to elicit_or_fallback
    \* ---- pagination helpers (SpecPage) ----
    ppc,            \* position of the pagination run
    items,          \* items argument
    response,       \* the response handle argument
    fetch_all_used, \* fetch_all_used argument
    pagination_info,\* pagination_info argument
    paginated       \* dict built by create_paginated_response, or NoResult

tool_vars == <<pc, tool, id_arg, confirmation, ctx, okta, outcome,
               elicit_calls, client_gets, okta_calls, result,
               auto_confirm_on_fallback, fallback_payload>>
page_vars == <<ppc, items, response, fetch_all_used, pagination_info, paginated>>

VARIABLES
    \* ---- exhaustive fetch: paginate_all_results, get_logs (SpecFetch) ----
    fpc,            \* position of the running fetch
    served,         \* the page responses the Okta side has served, in page order
    max_pages,      \* max_pages argument of the paginators
    fetch_all,      \* fetch_all argument of get_logs
    pages_fetched,  \* the paginator's local counter
    all_items,      \* the paginator's local all_items / all_logs
    cur,            \* page whose response handle the paginator holds
    run_info,       \* the paginator's local pagination_info dict
    requests,       \* next-page requests issued in this run
    initial_params, \* paginate_system_logs' initial_params: the query dict of get_logs
    all_report,     \* what paginate_all_results returned to a direct caller last
    logs_result,    \* what get_logs returned last, or NoResult
    caller,         \* who awaits paginate_all_results: "direct" or "list_groups"
    probed,         \* has_next() was already called on the handle held
    groups_result   \* what list_groups is about to return, or NoResult

fetch_vars == <<fpc, served, max_pages, fetch_all, pages_fetched, all_items, cur,
                run_info, requests, initial_params, all_report, logs_result, caller, probed,
                groups_result>>

VARIABLES
    \* ---- one call of a pure function or of a list tool's entry (SpecCall) ----
    cpc,            \* position of the call: "idle", "args", "returned"
    fn,             \* the function or tool called
    arg,            \* its argument: limit, response handle or ID
    ret,            \* what came back, or NoResult
    \* ---- OktaAuthManager.is_valid_token (SpecAuth) ----
    apc,            \* position of the running is_valid_token call
    api_token,      \* keyring entry "api_token": None or Str(token)
    refresh_token,  \* keyring entry "refresh_token": None or Str(token)
    token_age,      \* time.time() - self.token_timestamp
    use_browserless_auth, \* the manager's mode
    expiry_duration,\* expiry_duration argument of the call
    idp,            \* how the identity provider answers during the call
    entry,          \* api_token and token_age as the call found them
    auth_log,       \* refresh_access_token / authenticate calls of this call
    valid,          \* what is_valid_token returned, or NoResult
    \* ---- tool invocations running side by side (SpecConc) ----
    inv             \* per invocation: position, argument, bearer of the request in flight, response, result

call_vars == <<cpc, fn, arg, ret>>
auth_vars == <<apc, api_token, refresh_token, token_age, use_browserless_auth,
               expiry_duration, idp, entry, auth_log, valid, inv>>
vars == <<tool_vars, page_vars, fetch_vars, call_vars, auth_vars>>

\* Python's None, an absent attribute or key, and "nothing returned yet".
\* Values that may be None are tagged records, so that they compare with None.
None == [tag |-> "None"]
Missing == [tag |-> "Missing"]
NoResult == [tag |-> "NoResult"]
NoOutcome == [tag |-> "NoOutcome"]
Str(s) == [tag |-> "str", s |-> s]
Num(n) == [tag |-> "int", n |-> n]

\* ---- bounds of the model ----
MaxItems == 2
MaxPages == 3
PageSize == 2
\* how far below 0 and above the maximum the sampled limits go
MaxOver == 2
\* longest ID enumerated character by character
MaxIdLen == 3
\* largest token age and expiry duration, in ticks
MaxAge == 3
\* tool invocations in flight at once
MaxInvocations == 2

Invocations == 1..MaxInvocations

\* an invocation slot with no tool running in it
IdleInvocation ==
    [pc |-> "idle", arg |-> None, bearer |-> None, response |-> None,
     result |-> NoResult]

(***************************************************************************)
(* Sequence helpers                                                        *)
(***************************************************************************)
RECURSIVE IndexOfFrom(_, _, _)
\* first index >= i at which token t occurs in s, or 0
IndexOfFrom(s, t, i) ==
    IF i > Len(s) THEN 0
    ELSE IF s[i] = t THEN i
    ELSE IndexOfFrom(s, t, i + 1)

IndexOf(s, t) == IndexOfFrom(s, t, 1)

RECURSIVE SplitOn(_, _)
\* str.split(t): the pieces of s between occurrences of token t
SplitOn(s, t) ==
    LET i == IndexOf(s, t)
    IN  IF i = 0 THEN <<s>>
        ELSE <<SubSeq(s, 1, i - 1)>> \o SplitOn(SubSeq(s, i + 1, Len(s)), t)

\* s contains sub as a contiguous run (Python's `sub in s`)
ContainsRun(s, sub) ==
    \E i \in 1..(Len(s) - Len(sub) + 1) : SubSeq(s, i, i + Len(sub) - 1) = sub

(***************************************************************************)
(* URLs are sequences of tokens; "?", "&", "=", "#" are the delimiters and *)
(* "//[" opens a locator urlparse rejects with ValueError (a host with    *)
(* an unclosed bracket).                                                   *)
(***************************************************************************)
\* urllib.parse.unquote on one token: "+" is a blank, %41 is "A"
Unquote(t) == CASE t = "+" -> " " [] t = "%41" -> "A" [] OTHER -> t

UnquoteSeq(s) == [i \in 1..Len(s) |-> Unquote(s[i])]

UrlRaises(url) == IndexOf(url, "//[") # 0

\* urlparse(url).query: between the first "?" and the fragment
UrlQuery(url) ==
    LET h == IndexOf(url, "#")
        nofrag == IF h = 0 THEN url ELSE SubSeq(url, 1, h - 1)
        q == IndexOf(nofrag, "?")
    IN  IF q = 0 THEN <<>> ELSE SubSeq(nofrag, q + 1, Len(nofrag))

\* parse_qs(query): the (name, value) pairs in order; a field without "=" or
\* with a blank value is dropped (keep_blank_values = False)
ParseQsPairs(query) ==
    LET fields == SplitOn(query, "&")
        pair(f) == LET e == IndexOf(f, "=")
                   IN  [name |-> UnquoteSeq(SubSeq(f, 1, e - 1)),
                        value |-> UnquoteSeq(SubSeq(f, e + 1, Len(f)))]
        good(f) == IndexOf(f, "=") # 0 /\ IndexOf(f, "=") < Len(f)
    IN  [i \in 1..Len(SelectSeq(fields, good)) |-> pair(SelectSeq(fields, good)[i])]

\* query_params.get("after", [None])[0]
QsGetFirst(pairs, name) ==
    LET hits == SelectSeq(pairs, LAMBDA p : p.name = <<name>>)
    IN  IF Len(hits) = 0 THEN None ELSE Str(hits[1].value)

(***************************************************************************)
(* Response handles.  kind: "null" (None), "noprobe" (no has_next          *)
(* attribute) or "handle"; has_next is what has_next() answers; next is    *)
(* the _next attribute: Missing, None or Str(locator).                     *)
(***************************************************************************)
Handle(k, h, n) == [kind |-> k, has_next |-> h, next |-> n]

NullHandle == Handle("null", FALSE, Missing)

\* a pagination_info argument that is an empty dict (falsy)
EmptyDict == [tag |-> "dict", empty |-> TRUE]

\* the dict paginate_all_results / paginate_system_logs build
PaginationInfo(pages, total, early, reason) ==
    [tag |-> "dict", empty |-> FALSE, pages_fetched |-> pages, total_items |-> total,
     stopped_early |-> early, stop_reason |-> reason]

\* utils/pagination.py extract_after_cursor
extract_after_cursor(r) ==
    IF r.kind # "handle" \/ ~r.has_next THEN None
    ELSE IF r.next \in {Missing, None} \/ r.next = Str(<<>>) THEN None
    ELSE IF UrlRaises(r.next.s) THEN None
    ELSE QsGetFirst(ParseQsPairs(UrlQuery(r.next.s)), "after")

\* utils/pagination.py create_paginated_response, with the fetch_all guard dropped
CreatePaginatedResponseNoGuard(its, r, fa, info) ==
    [items |-> its,
     total_fetched |-> Len(its),
     has_more |-> IF r.kind # "null"
                  THEN (IF r.kind = "handle" THEN r.has_next ELSE FALSE)
                  ELSE FALSE,
     next_cursor |-> IF r.kind # "null" THEN extract_after_cursor(r) ELSE None,
     fetch_all_used |-> fa,
     pagination_info |-> IF info = None \/ info = EmptyDict THEN Missing ELSE info]

\* utils/pagination.py create_paginated_response, never asking the handle
CreatePaginatedResponseNeverMore(its, r, fa, info) ==
    [items |-> its,
     total_fetched |-> Len(its),
     has_more |-> FALSE,
     next_cursor |-> None,
     fetch_all_used |-> fa,
     pagination_info |-> IF info = None \/ info = EmptyDict THEN Missing ELSE info]

\* utils/pagination.py create_paginated_response
create_paginated_response(its, r, fa, info) ==
    [items |-> its,
     total_fetched |-> Len(its),
     has_more |-> IF ~fa /\ r.kind # "null"
                  THEN (IF r.kind = "handle" THEN r.has_next ELSE FALSE)
                  ELSE FALSE,
     next_cursor |-> IF ~fa /\ r.kind # "null" THEN extract_after_cursor(r) ELSE None,
     fetch_all_used |-> fa,
     pagination_info |-> IF info = None \/ info = EmptyDict THEN Missing ELSE info]

(***************************************************************************)
(* utils/validation.py.  An ID is None or Str(sequence of characters).     *)
(***************************************************************************)
LowerChar(c) ==
    CASE c = "A" -> "a" [] c = "B" -> "b" [] c = "C" -> "c" [] c = "D" -> "d"
      [] c = "E" -> "e" [] c = "F" -> "f" [] c = "L" -> "l" [] c = "T" -> "t"
      [] OTHER -> c

Lower(s) == [i \in 1..Len(s) |-> LowerChar(s[i])]

FORBIDDEN_PATTERNS ==
    << <<"/">>, <<"\\">>, <<".", ".">>, <<"?">>, <<"#">>,
       <<"%", "2", "f">>, <<"%", "2", "F">>, <<"%", "5", "c">>, <<"%", "5", "C">>,
       <<"%", "2", "e", "%", "2", "e">>, <<"%", "2", "E", "%", "2", "E">> >>

\* the characters of the class [a-zA-Z0-9_\-@.+] among those the model uses
ValidIdChars ==
    {"a", "b", "c", "d", "e", "f", "g", "l", "t", "u",
     "A", "B", "C", "D", "E", "F", "L", "T",
     "0", "1", "2", "5", "_", "-", "@", ".", "+"}

\* VALID_OKTA_ID_PATTERN.match(s): ^[...]+$ ; Python's $ also matches just
\* before a newline that ends the string
VALID_OKTA_ID_PATTERN(s) ==
    LET body == IF Len(s) > 1 /\ s[Len(s)] = "\n" THEN SubSeq(s, 1, Len(s) - 1) ELSE s
    IN  Len(body) > 0 /\ \A i \in 1..Len(body) : body[i] \in ValidIdChars

\* validate_okta_id raises InvalidOktaIdError (TRUE) or returns its argument (FALSE)
ValidateOktaIdRaises(id_value) ==
    \/ id_value = None
    \/ id_value.s = <<>>
    \/ \E k \in 1..Len(FORBIDDEN_PATTERNS) :
          ContainsRun(Lower(id_value.s), Lower(FORBIDDEN_PATTERNS[k]))
    \/ ~VALID_OKTA_ID_PATTERN(id_value.s)

\* the validate_ids decorator letting every value through
ValidateIdsRejectsNothing(id_value) == FALSE

\* the validate_ids decorator: None is skipped, anything else is validated
ValidateIdsRejects(id_value) == id_value # None /\ ValidateOktaIdRaises(id_value)

(***************************************************************************)
(* utils/elicitation.py.  The Context: the capability record behind        *)
(* ctx.request_context.session, and what ctx.elicit does when awaited.     *)
(***************************************************************************)
Probe(se, cp, ca, el) ==
    [session |-> se, client_params |-> cp, capabilities |-> ca, elicitation |-> el]

Probes ==
    { Probe("ok", "ok", "ok", "set"),      \* capability advertised
      Probe("ok", "ok", "ok", "none"),     \* capabilities.elicitation is None
      Probe("ok", "ok", "none", "none"),   \* no capability record
      Probe("ok", "none", "none", "none"), \* no client params
      Probe("none", "none", "none", "none"),   \* no session
      Probe("raise", "none", "none", "none") } \* reading the session raises

\* result.data of an accepted elicitation: None, or the submitted form
Form(has, v) == [tag |-> "form", has_confirm |-> has, confirm |-> v]

Reply(k, d, e) == [kind |-> k, data |-> d, exc |-> e]

Replies ==
    { Reply("accept", Form(TRUE, TRUE), "-"),
      Reply("accept", Form(TRUE, FALSE), "-"),
      Reply("accept", Form(FALSE, FALSE), "-"),   \* form without a confirm attribute
      Reply("accept", None, "-"),                 \* accepted, no data
      Reply("decline", None, "-"),
      Reply("cancel", None, "-"),
      Reply("other", None, "-"),                  \* unexpected result shape
      Reply("raise", None, "METHOD_NOT_FOUND"),   \* McpError, code METHOD_NOT_FOUND
      Reply("raise", None, "McpError"),           \* McpError, another code
      Reply("raise", None, "Exception") }         \* any other exception

Contexts == [probe : Probes, elicit : Replies]

\* supports_elicitation(ctx)
supports_elicitation(c) ==
    IF c.probe.session # "ok" THEN FALSE
    ELSE IF c.probe.client_params = "ok" /\ c.probe.capabilities = "ok"
         THEN c.probe.elicitation # "none"
         ELSE FALSE

ElicitationOutcome(c, u, f) ==
    [tag |-> "outcome", confirmed |-> c, used_elicitation |-> u, fallback_response |-> f]

\* the generic payload elicit_or_fallback builds when fallback_payload is falsy
DefaultFallback(message) ==
    [tag |-> "dict", empty |-> FALSE, confirmation_required |-> TRUE, message |-> message]

\* a caller-supplied fallback_payload
CustomPayload == [tag |-> "dict", empty |-> FALSE, custom_key |-> "custom_value"]

FallbackPayloads == {None, EmptyDict, CustomPayload}

\* the no-elicitation branch never auto-confirming
FallbackBranchNoAuto(message, payload, auto) ==
    ElicitationOutcome(FALSE, FALSE,
        IF payload = None \/ payload = EmptyDict THEN DefaultFallback(message) ELSE payload)

\* the same branch confirming whatever the policy says
FallbackBranchConfirmsAlways(message, payload, auto) ==
    ElicitationOutcome(TRUE, FALSE, None)

\* the same branch answering with the generic payload whatever the caller
\* supplied
FallbackBranchIgnoresPayload(message, payload, auto) ==
    IF auto THEN ElicitationOutcome(TRUE, FALSE, None)
    ELSE ElicitationOutcome(FALSE, FALSE, DefaultFallback(message))

\* the same branch attaching the payload to an auto-confirmed outcome too
FallbackBranchAlwaysAttaches(message, payload, auto) ==
    ElicitationOutcome(auto, FALSE,
        IF payload = None \/ payload = EmptyDict THEN DefaultFallback(message)
        ELSE payload)

\* elicit_or_fallback, no elicitation available: the branch taken when the
\* probe fails and in both except clauses
FallbackBranch(message, payload, auto) ==
    IF auto THEN ElicitationOutcome(TRUE, FALSE, None)
    ELSE ElicitationOutcome(FALSE, FALSE,
            IF payload = None \/ payload = EmptyDict THEN DefaultFallback(message)
            ELSE payload)

\* elicit_or_fallback, the mapping of the value ctx.elicit returned, reading
\* an accepted form as consent whatever it holds
ElicitResultAcceptAny(r) ==
    IF r.kind = "accept" THEN ElicitationOutcome(TRUE, TRUE, None)
    ELSE ElicitationOutcome(FALSE, TRUE, None)

\* elicit_or_fallback, the mapping of the value ctx.elicit returned
ElicitResult(r) ==
    IF r.kind = "accept" /\ r.data # None
    THEN ElicitationOutcome(IF r.data.has_confirm THEN r.data.confirm ELSE FALSE,
                            TRUE, None)
    ELSE IF r.kind = "decline" THEN ElicitationOutcome(FALSE, TRUE, None)
    ELSE IF r.kind = "cancel" THEN ElicitationOutcome(FALSE, TRUE, None)
    ELSE ElicitationOutcome(FALSE, TRUE, None)

(***************************************************************************)
(* The tools.  UserTools route through elicit_or_fallback; the legacy      *)
(* delete tools answer with a confirmation request; the confirm_* tools    *)
(* check the literal confirmation; DirectTools call Okta straight away.    *)
(* "elicit_or_fallback" stands for a direct call of the mediator with      *)
(* arbitrary arguments.  For the policy-rule tools id_arg stands for the   *)
(* (policy_id, rule_id) pair.                                              *)
(***************************************************************************)
UserTools == {"deactivate_user", "delete_deactivated_user"}
LegacyDeleteTools == {"delete_group", "delete_application"}
ConfirmTools == {"confirm_delete_group", "confirm_delete_application"}
PolicyTools == {"delete_policy", "delete_policy_rule", "deactivate_policy",
                "deactivate_policy_rule"}
DirectTools == PolicyTools \cup {"deactivate_application"}
Mediator == "elicit_or_fallback"
Tools == UserTools \cup LegacyDeleteTools \cup ConfirmTools \cup DirectTools
            \cup {Mediator}

\* the tools the destructive-operation boundary names
DestructiveTools == UserTools \cup LegacyDeleteTools \cup DirectTools

\* the Okta client method each tool awaits
OktaOp(t) ==
    CASE t = "delete_deactivated_user" -> "deactivate_or_delete_user"
      [] t = "confirm_delete_group" -> "delete_group"
      [] t = "confirm_delete_application" -> "delete_application"
      [] OTHER -> t

\* utils/messages.py: the prompt template rendered with the ID
Message(t, id) ==
    [template |-> CASE t = "deactivate_user" -> "DEACTIVATE_USER"
                    [] t = "delete_deactivated_user" -> "DELETE_USER"
                    [] OTHER -> "Delete?",
     id |-> id]

\* sample arguments
DELETE == <<"D", "E", "L", "E", "T", "E">>
Confirmations ==
    { DELETE, <<"d", "e", "l", "e", "t", "e">>, <<"D", "E", "L", "E", "T", "E", " ">>,
      <<"D", "e", "l", "e", "t", "e">>, <<>> }
Ids ==
    { None, Str(<<>>), Str(<<"0", "0", "u", "1">>), Str(<<"a", "@", "b", ".", "c">>),
      Str(<<".", ".", "/", "g">>), Str(<<"0", "0", "g", "%", "2", "F">>) }
OktaBehaviours == [get_client : {"ok", "raise"}, call : {"ok", "err", "raise"}]

\* what a tool hands back.  kind: what happened; key: where the text sits
\* ("message"/"error" key of a dict, "str" a bare string, "raise" an
\* exception leaving the tool)
Result(kind, key, id) ==
    [tag |-> "result", kind |-> kind, key |-> key,
     confirmation_required |-> FALSE, id |-> id]

\* groups.py delete_group / applications.py delete_application
ConfirmationRequest(id) ==
    [tag |-> "result", kind |-> "confirmation", key |-> "message",
     confirmation_required |-> TRUE, id |-> id]

\* the value of the idle state
Idle ==
    /\ pc = "idle" /\ tool = "none" /\ id_arg = None /\ confirmation = <<>>
    /\ ctx = [probe |-> Probe("ok", "ok", "ok", "set"),
              elicit |-> Reply("decline", None, "-")]
    /\ okta = [get_client |-> "ok", call |-> "ok"]
    /\ outcome = NoOutcome /\ elicit_calls = 0 /\ client_gets = 0
    /\ okta_calls = <<>> /\ result = NoResult
    /\ auto_confirm_on_fallback = FALSE /\ fallback_payload = None

PageIdle ==
    /\ ppc = "idle" /\ items = <<>> /\ response = NullHandle
    /\ fetch_all_used = FALSE /\ pagination_info = None /\ paginated = NoResult

FetchIdle ==
    /\ fpc = "idle" /\ served = <<>> /\ max_pages = 1 /\ fetch_all = FALSE
    /\ pages_fetched = 0 /\ all_items = <<>> /\ cur = 0 /\ run_info = None
    /\ requests = <<>> /\ all_report = NoResult /\ logs_result = NoResult
    /\ initial_params = None
    /\ caller = "direct" /\ probed = FALSE /\ groups_result = NoResult

CallIdle ==
    cpc = "idle" /\ fn = "none" /\ arg = None /\ ret = NoResult

AuthIdle ==
    /\ apc = "idle" /\ api_token = None /\ refresh_token = None
    /\ token_age = MaxAge /\ use_browserless_auth = FALSE
    /\ expiry_duration = 1
    /\ idp = [refresh |-> "401", auth |-> "denied"]
    /\ entry = None /\ auth_log = <<>> /\ valid = NoResult
    /\ inv = [i \in Invocations |-> IdleInvocation]

(***************************************************************************)
(* One tool invocation, stepped at its suspension points.                  *)
(***************************************************************************)
Entry(t) ==
    CASE t \in UserTools -> "validate_ids"
      [] t \in LegacyDeleteTools -> "request"
      [] t \in ConfirmTools -> "check"
      [] t \in DirectTools -> "get_client"
      [] OTHER -> "probe"

\* where the tool puts the text of each kind of answer
ResultKey(t, kind) ==
    CASE t \in UserTools ->
            (IF kind = "cancelled" THEN "message" ELSE "str")
      [] t = "confirm_delete_group" ->
            (IF kind = "success" THEN "message" ELSE "error")
      [] t \in {"confirm_delete_application", "deactivate_application"} -> "str"
      [] t \in PolicyTools ->
            (IF kind = "success" THEN "message" ELSE "error")
      [] OTHER -> "message"

\* the caller starts a tool with its arguments
Invoke ==
    /\ pc = "idle"
    /\ \E t \in Tools :
         /\ tool' = t
         /\ pc' = Entry(t)
         /\ ctx' \in Contexts
         /\ id_arg' \in (IF t = Mediator THEN {None} ELSE Ids)
         /\ confirmation' \in (IF t \in ConfirmTools THEN Confirmations ELSE {<<>>})
         /\ okta' \in (IF t \in LegacyDeleteTools \cup {Mediator}
                        THEN {[get_client |-> "ok", call |-> "ok"]}
                        ELSE OktaBehaviours)
         /\ auto_confirm_on_fallback' \in
                (IF t = Mediator THEN BOOLEAN ELSE {t \in UserTools})
         /\ fallback_payload' \in (IF t = Mediator THEN FallbackPayloads ELSE {None})
    /\ UNCHANGED <<outcome, elicit_calls, client_gets, okta_calls, result>>
    /\ UNCHANGED <<page_vars, fetch_vars, call_vars, auth_vars>>

\* validation.py validate_ids, the wrapper around deactivate_user and
\* delete_deactivated_user
ValidateIds ==
    /\ pc = "validate_ids"
    /\ IF ValidateIdsRejects(id_arg)
       THEN /\ result' = Result("invalid_id", "str", id_arg)
            /\ pc' = "done"
       ELSE /\ pc' = "probe"
            /\ UNCHANGED result
    /\ UNCHANGED <<tool, id_arg, confirmation, ctx, okta, outcome, elicit_calls,
                   client_gets, okta_calls, auto_confirm_on_fallback, fallback_payload>>
    /\ UNCHANGED <<page_vars, fetch_vars, call_vars, auth_vars>>

\* where control goes once elicit_or_fallback has returned
AfterMediator == IF tool = Mediator THEN "done" ELSE "decide"

\* elicit_or_fallback up to its await: the capability probe and the branch
\* taken when the capability is absent
ProbeCapability ==
    /\ pc = "probe"
    /\ IF ~supports_elicitation(ctx)
       THEN /\ outcome' = FallbackBranch(Message(tool, id_arg), fallback_payload,
                                         auto_confirm_on_fallback)
            /\ pc' = AfterMediator
       ELSE /\ pc' = "elicit"
            /\ UNCHANGED outcome
    /\ UNCHANGED <<tool, id_arg, confirmation, ctx, okta, elicit_calls, client_gets,
                   okta_calls, result, auto_confirm_on_fallback, fallback_payload>>
    /\ UNCHANGED <<page_vars, fetch_vars, call_vars, auth_vars>>

\* the exchange with a failure of ctx.elicit read as a refusal by the user
ElicitRaiseDeclines ==
    /\ pc = "elicit"
    /\ elicit_calls' = elicit_calls + 1
    /\ outcome' = IF ctx.elicit.kind = "raise"
                  THEN ElicitationOutcome(FALSE, TRUE, None)
                  ELSE ElicitResult(ctx.elicit)
    /\ pc' = AfterMediator
    /\ UNCHANGED <<tool, id_arg, confirmation, ctx, okta, client_gets, okta_calls,
                   result, auto_confirm_on_fallback, fallback_payload>>
    /\ UNCHANGED <<page_vars, fetch_vars, call_vars, auth_vars>>

\* the exchange without the `except Exception` clause: an exception that is
\* not an McpError leaves elicit_or_fallback and the tool that awaited it
ElicitUncaught ==
    /\ pc = "elicit"
    /\ elicit_calls' = elicit_calls + 1
    /\ IF ctx.elicit.kind = "raise" /\ ctx.elicit.exc = "Exception"
       THEN /\ outcome' = [tag |-> "raised", exc |-> ctx.elicit.exc]
            /\ result' = Result("exception", "raise", id_arg)
            /\ pc' = "done"
       ELSE /\ outcome' = IF ctx.elicit.kind = "raise"
                          THEN FallbackBranch(Message(tool, id_arg), fallback_payload,
                                              auto_confirm_on_fallback)
                          ELSE ElicitResult(ctx.elicit)
            /\ pc' = AfterMediator
            /\ UNCHANGED result
    /\ UNCHANGED <<tool, id_arg, confirmation, ctx, okta, client_gets, okta_calls,
                   auto_confirm_on_fallback, fallback_payload>>
    /\ UNCHANGED <<page_vars, fetch_vars, call_vars, auth_vars>>

\* the exchange issued a second time after it failed or returned an
\* unexpected result
ElicitRetriesOnce ==
    /\ pc = "elicit"
    /\ elicit_calls' = elicit_calls + 1
    /\ IF ctx.elicit.kind \in {"raise", "other"} /\ elicit_calls = 0
       THEN /\ pc' = "elicit"
            /\ UNCHANGED outcome
       ELSE /\ outcome' = IF ctx.elicit.kind = "raise"
                          THEN FallbackBranch(Message(tool, id_arg), fallback_payload,
                                              auto_confirm_on_fallback)
                          ELSE ElicitResult(ctx.elicit)
            /\ pc' = AfterMediator
    /\ UNCHANGED <<tool, id_arg, confirmation, ctx, okta, client_gets, okta_calls,
                   result, auto_confirm_on_fallback, fallback_payload>>
    /\ UNCHANGED <<page_vars, fetch_vars, call_vars, auth_vars>>

\* elicit_or_fallback from its await on: the exchange, and the mapping of
\* what it returned or raised
Elicit ==
    /\ pc = "elicit"
    /\ elicit_calls' = elicit_calls + 1
    /\ outcome' = IF ctx.elicit.kind = "raise"
                  THEN FallbackBranch(Message(tool, id_arg), fallback_payload,
                                      auto_confirm_on_fallback)
                  ELSE ElicitResult(ctx.elicit)
    /\ pc' = AfterMediator
    /\ UNCHANGED <<tool, id_arg, confirmation, ctx, okta, client_gets, okta_calls,
                   result, auto_confirm_on_fallback, fallback_payload>>
    /\ UNCHANGED <<page_vars, fetch_vars, call_vars, auth_vars>>

\* `if not outcome.confirmed: return cancelled`, with the test dropped
ProceedsAlways(o) == TRUE

\* users.py: `if not outcome.confirmed: return [... cancelled ...]`
Proceeds(o) == o.confirmed

\* deactivate_user / delete_deactivated_user after the mediator returned
Decide ==
    /\ pc = "decide"
    /\ IF Proceeds(outcome)
       THEN /\ pc' = "get_client"
            /\ UNCHANGED result
       ELSE /\ result' = Result("cancelled", ResultKey(tool, "cancelled"), id_arg)
            /\ pc' = "done"
    /\ UNCHANGED <<tool, id_arg, confirmation, ctx, okta, outcome, elicit_calls,
                   client_gets, okta_calls, auto_confirm_on_fallback, fallback_payload>>
    /\ UNCHANGED <<page_vars, fetch_vars, call_vars, auth_vars>>

\* delete_group / delete_application deleting at once instead of asking
LegacyDeleteAtOnce ==
    /\ pc = "request"
    /\ okta_calls' = Append(okta_calls, [op |-> OktaOp(tool), id |-> id_arg])
    /\ result' = Result("success", "message", id_arg)
    /\ pc' = "done"
    /\ UNCHANGED <<tool, id_arg, confirmation, ctx, okta, outcome, elicit_calls,
                   client_gets, auto_confirm_on_fallback, fallback_payload>>
    /\ UNCHANGED <<page_vars, fetch_vars, call_vars, auth_vars>>

\* groups.py delete_group, applications.py delete_application: the whole body
LegacyDeleteRequest ==
    /\ pc = "request"
    /\ result' = ConfirmationRequest(id_arg)
    /\ pc' = "done"
    /\ UNCHANGED <<tool, id_arg, confirmation, ctx, okta, outcome, elicit_calls,
                   client_gets, okta_calls, auto_confirm_on_fallback, fallback_payload>>
    /\ UNCHANGED <<page_vars, fetch_vars, call_vars, auth_vars>>

\* the confirmation test comparing without regard to case
ConfirmationAcceptedAnyCase(c) == Lower(c) = Lower(DELETE)

\* `confirmation != "DELETE"` of the confirm_* tools, negated
ConfirmationAccepted(c) == c = DELETE

\* confirm_delete_group / confirm_delete_application up to get_okta_client
ConfirmCheck ==
    /\ pc = "check"
    /\ IF tool = "confirm_delete_group" /\ ValidateOktaIdRaises(id_arg)
       THEN /\ result' = Result("invalid_id", "error", id_arg)
            /\ pc' = "done"
       ELSE IF ~ConfirmationAccepted(confirmation)
       THEN /\ result' = Result("cancelled", ResultKey(tool, "cancelled"), id_arg)
            /\ pc' = "done"
       ELSE /\ pc' = "get_client"
            /\ UNCHANGED result
    /\ UNCHANGED <<tool, id_arg, confirmation, ctx, okta, outcome, elicit_calls,
                   client_gets, okta_calls, auto_confirm_on_fallback, fallback_payload>>
    /\ UNCHANGED <<page_vars, fetch_vars, call_vars, auth_vars>>

\* `await get_okta_client(manager)`.  The policy tools await it outside
\* their try block, so its exception leaves the tool.
GetClient ==
    /\ pc = "get_client"
    /\ client_gets' = client_gets + 1
    /\ IF okta.get_client = "raise"
       THEN /\ result' = Result("exception",
                                IF tool \in PolicyTools THEN "raise"
                                ELSE ResultKey(tool, "exception"), id_arg)
            /\ pc' = "done"
       ELSE /\ pc' = "call"
            /\ UNCHANGED result
    /\ UNCHANGED <<tool, id_arg, confirmation, ctx, okta, outcome, elicit_calls,
                   okta_calls, auto_confirm_on_fallback, fallback_payload>>
    /\ UNCHANGED <<page_vars, fetch_vars, call_vars, auth_vars>>

\* the awaited Okta client method and the tool's answer to what it returned
OktaCall ==
    /\ pc = "call"
    /\ okta_calls' = Append(okta_calls, [op |-> OktaOp(tool), id |-> id_arg])
    /\ LET kind == CASE okta.call = "ok" -> "success"
                     [] okta.call = "err" -> "api_error"
                     [] OTHER -> "exception"
       IN  result' = Result(kind, ResultKey(tool, kind), id_arg)
    /\ pc' = "done"
    /\ UNCHANGED <<tool, id_arg, confirmation, ctx, okta, outcome, elicit_calls,
                   client_gets, auto_confirm_on_fallback, fallback_payload>>
    /\ UNCHANGED <<page_vars, fetch_vars, call_vars, auth_vars>>

\* the return of delete_group / delete_application leaving the ID behind
\* as a pending request
ReturnKeepsPending ==
    /\ pc = "done"
    /\ pc' = "idle" /\ tool' = "none" /\ confirmation' = <<>>
    /\ id_arg' = IF tool \in LegacyDeleteTools THEN id_arg ELSE None
    /\ ctx' = [probe |-> Probe("ok", "ok", "ok", "set"),
               elicit |-> Reply("decline", None, "-")]
    /\ okta' = [get_client |-> "ok", call |-> "ok"]
    /\ outcome' = NoOutcome /\ elicit_calls' = 0 /\ client_gets' = 0
    /\ okta_calls' = <<>> /\ result' = NoResult
    /\ auto_confirm_on_fallback' = FALSE /\ fallback_payload' = None
    /\ UNCHANGED <<page_vars, fetch_vars, call_vars, auth_vars>>

\* the invocation is over; nothing of it is kept
Return ==
    /\ pc = "done"
    /\ pc' = "idle" /\ tool' = "none" /\ id_arg' = None /\ confirmation' = <<>>
    /\ ctx' = [probe |-> Probe("ok", "ok", "ok", "set"),
               elicit |-> Reply("decline", None, "-")]
    /\ okta' = [get_client |-> "ok", call |-> "ok"]
    /\ outcome' = NoOutcome /\ elicit_calls' = 0 /\ client_gets' = 0
    /\ okta_calls' = <<>> /\ result' = NoResult
    /\ auto_confirm_on_fallback' = FALSE /\ fallback_payload' = None
    /\ UNCHANGED <<page_vars, fetch_vars, call_vars, auth_vars>>

Init == Idle /\ PageIdle /\ FetchIdle /\ CallIdle /\ AuthIdle

Next ==
    \/ Invoke
    \/ ValidateIds
    \/ ProbeCapability
    \/ Elicit
    \/ Decide
    \/ LegacyDeleteRequest
    \/ ConfirmCheck
    \/ GetClient
    \/ OktaCall
    \/ Return

Spec == Init /\ [][Next]_vars

(***************************************************************************)
(* The pagination helpers on bounded inputs.                               *)
(***************************************************************************)
Locators ==
    { <<"/x", "?", "after", "=", "C123", "&", "limit", "=", "50">>,
      <<"/x", "?", "limit", "=", "50">>,
      <<"/x", "?", "after", "=">>,
      <<"/x", "?", "limit", "=", "50", "&", "after", "=", "C9", "&", "after", "=", "C7">>,
      <<"/x", "?", "after", "=", "a", "+", "%41">>,
      <<"/x", "#", "?", "after", "=", "C1">>,
      <<"/x", "?", "after">>,
      <<"//[", "?", "after", "=", "C5">>,
      <<"/x">> }

NextAttrs == {Missing, None, Str(<<>>)} \cup {Str(l) : l \in Locators}

Handles ==
    {NullHandle} \cup {Handle("noprobe", FALSE, n) : n \in {Missing, Str(<<"/x", "?", "after", "=", "C123">>)}}
        \cup {Handle("handle", h, n) : h \in BOOLEAN, n \in NextAttrs}

ItemLists == {[i \in 1..n |-> i] : n \in 0..MaxItems}

StopReasons == {Str(<<"API error: ", "E">>), Str(<<"Reached maximum page limit">>)}

PaginationInfos ==
    {None, EmptyDict}
        \cup {PaginationInfo(1, n, FALSE, None) : n \in 0..MaxItems}
        \cup {PaginationInfo(p, n, TRUE, r) : p \in 1..2, n \in 0..MaxItems, r \in StopReasons}

InitPage ==
    /\ Idle
    /\ FetchIdle
    /\ CallIdle /\ AuthIdle
    /\ ppc = "args"
    /\ items \in ItemLists
    /\ response \in Handles
    /\ fetch_all_used \in BOOLEAN
    /\ pagination_info \in PaginationInfos
    /\ paginated = NoResult

\* a tool's closing `return create_paginated_response(...)`
BuildResponse ==
    /\ ppc = "args"
    /\ paginated' = create_paginated_response(items, response, fetch_all_used,
                                               pagination_info)
    /\ ppc' = "built"
    /\ UNCHANGED <<items, response, fetch_all_used, pagination_info>>
    /\ UNCHANGED <<tool_vars, fetch_vars, call_vars, auth_vars>>

NextPage == BuildResponse

SpecPage == InitPage /\ [][NextPage]_vars

(***************************************************************************)
(* Exhaustive fetch: utils/pagination.py paginate_all_results and          *)
(* tools/system_logs get_logs / paginate_system_logs, run one at a time    *)
(* against the same Okta side.  The Okta side answers the request for      *)
(* page k with served[k]; a page not yet served is chosen when it is first *)
(* requested.  PageSize stands for the `limit` handed to                   *)
(* paginate_system_logs, MaxPages for the largest max_pages tried.         *)
(***************************************************************************)
Cursors == <<"c1", "c2", "c3", "c4", "c5", "c6">>
Decimal == <<"1", "2", "3", "4", "5", "6">>

\* the next-page locator of page k's response, with and without `after`
AfterLocator(k) == <<"/api/v1/logs", "?", "limit", "=", "L", "&", "after", "=", Cursors[k]>>
NoAfterLocator == <<"/api/v1/logs", "?", "limit", "=", "L">>

\* What a page request yields.  kind: "ok" (items, no error), "err" (an
\* error value is returned), "raise" (the awaited call raises).  handle: the
\* response handle after this page.  probe: how has_next() behaves on it:
\* "ok" answers, "raise" raises, "raise_later" answers once and then raises,
\* "once" answers true to the first call and false to every later one.
PageResponse(kind, size, handle, probe) ==
    [kind |-> kind, size |-> size, handle |-> handle, probe |-> probe]

\* how many items a page holds: none, fewer than the limit, the limit
PageSizes == {0, 1, PageSize}

PageResponses(k) ==
    { PageResponse("err", 0, NullHandle, "ok"),
      PageResponse("raise", 0, NullHandle, "ok") }
        \cup { PageResponse("ok", n, Handle("handle", h, Str(l)), "ok") :
                 n \in PageSizes, h \in BOOLEAN,
                 l \in {AfterLocator(k), NoAfterLocator} }
        \cup { PageResponse("ok", n, Handle("handle", h, Str(AfterLocator(k))), "raise_later") :
                 n \in PageSizes, h \in BOOLEAN }
        \cup { PageResponse("ok", n, Handle("handle", FALSE, Str(NoAfterLocator)), "raise") :
                 n \in PageSizes }

\* first pages whose has_next() answers true a single time
OncePages ==
    { PageResponse("ok", n, Handle("handle", TRUE, Str(AfterLocator(1))), "once") :
        n \in PageSizes }

\* the first page may also come with no handle, or one without has_next
FirstPages ==
    PageResponses(1)
        \cup { PageResponse("ok", n, h, "ok") :
                 n \in PageSizes, h \in {NullHandle, Handle("noprobe", FALSE, Missing)} }

\* the items of page k
PageItems(k, n) == [i \in 1..n |-> <<k, i>>]

\* f"API error: {next_err}", f"Exception: {e}", f"Unexpected error: {e}",
\* f"Reached maximum page limit ({max_pages})"
ApiErrorReason == Str(<<"API error: ", "E">>)
ExceptionReason == Str(<<"Exception: ", "X">>)
UnexpectedErrorReason == Str(<<"Unexpected error: ", "P">>)
MaxPagesReason(m) == Str(<<"Reached maximum page limit (", Decimal[m], ")">>)
NoCursorReason == Str(<<"No cursor available despite full page">>)

\* get_logs: {"error": f"Error: {err}"} and {"error": f"Exception: {e}"}
ErrorResult(text) == [error |-> text]
IsError(r) == "error" \in DOMAIN r

StoppedEarly(info, reason) ==
    [info EXCEPT !.stopped_early = TRUE, !.stop_reason = reason]

\* the final counts leaving total_items as it was set on entry
FinalisedKeepsTotal(info, pf, its) ==
    [info EXCEPT !.pages_fetched = pf]

\* pagination_info["pages_fetched"] = ...; pagination_info["total_items"] = ...
Finalised(info, pf, its) ==
    [info EXCEPT !.pages_fetched = pf, !.total_items = Len(its)]

\* a loop guard that never closes
UnderPageLimitUnbounded(pf, m) == TRUE

\* the loop guard letting the counter pass max_pages
UnderPageLimitInclusive(pf, m) == pf <= m

\* `pages_fetched < max_pages` of both loops
UnderPageLimit(pf, m) == pf < m

\* has_next() raises on response r; `again` tells a call after the first
ProbeRaises(r, again) ==
    /\ r.handle.kind = "handle"
    /\ r.probe = "raise" \/ (again /\ r.probe = "raise_later")

\* the handle of response r as a has_next() call sees it
HandleAt(r, again) ==
    IF r.probe = "once" /\ again THEN [r.handle EXCEPT !.has_next = FALSE]
    ELSE r.handle

\* the page the next request yields: the one served before, or a fresh one
Serve(k) ==
    IF k <= Len(served) THEN served' = served
    ELSE \E p \in PageResponses(k) : served' = Append(served, p)

FetchLocalsReset ==
    /\ pages_fetched' = 0 /\ all_items' = <<>> /\ cur' = 0
    /\ run_info' = None /\ requests' = <<>> /\ initial_params' = None
    /\ caller' = "direct" /\ probed' = FALSE /\ groups_result' = NoResult

\* ---- paginate_all_results ----
\* entry up to the loop: the locals, and the return for a handle that is
\* None or has no has_next
EnterAll(first) ==
    /\ all_items' = PageItems(1, first.size)
    /\ pages_fetched' = 1
    /\ cur' = 1
    /\ run_info' = PaginationInfo(1, first.size, FALSE, None)
    /\ requests' = <<>>
    /\ initial_params' = None
    /\ fpc' = IF first.handle.kind # "handle" THEN "all_done" ELSE "all_loop"

\* a caller awaits paginate_all_results(response, items, max_pages) with the
\* first page it holds
StartAll ==
    /\ fpc = "idle"
    /\ served[1].kind = "ok"
    /\ EnterAll(served[1])
    /\ caller' = "direct"
    /\ probed' = FALSE
    /\ UNCHANGED <<served, max_pages, fetch_all, all_report, logs_result, groups_result>>
    /\ UNCHANGED <<tool_vars, page_vars, call_vars, auth_vars>>

\* after the loop with a page-limit test that does not look at the count
AllAfterLoopAnyCount(info, pf, its, r, again) ==
    Finalised(
        IF ProbeRaises(r, again) THEN StoppedEarly(info, UnexpectedErrorReason)
        ELSE IF HandleAt(r, again).has_next
             THEN StoppedEarly(info, MaxPagesReason(max_pages))
        ELSE info,
        pf, its)

\* after the loop with a page-limit test that does not ask has_next()
AllAfterLoopUnconditional(info, pf, its, r, again) ==
    Finalised(
        IF pf >= max_pages THEN StoppedEarly(info, MaxPagesReason(max_pages)) ELSE info,
        pf, its)

\* after the loop: the page-limit test, the outer except, the final counts.
\* again: has_next() was already called on this handle.
AllAfterLoop(info, pf, its, r, again) ==
    Finalised(
        IF pf >= max_pages
        THEN IF ProbeRaises(r, again) THEN StoppedEarly(info, UnexpectedErrorReason)
             ELSE IF HandleAt(r, again).has_next
                  THEN StoppedEarly(info, MaxPagesReason(max_pages))
             ELSE info
        ELSE info,
        pf, its)

\* the loop test leaving a raising has_next() out of the report
AllLoopTestUnrecorded ==
    /\ fpc = "all_loop"
    /\ LET r == served[cur]
       IN  IF ProbeRaises(r, probed)
           THEN /\ run_info' = Finalised(run_info,
                                         pages_fetched, all_items)
                /\ fpc' = "all_done"
           ELSE IF HandleAt(r, probed).has_next /\ UnderPageLimit(pages_fetched, max_pages)
           THEN /\ fpc' = "all_next"
                /\ UNCHANGED run_info
           ELSE /\ run_info' = AllAfterLoop(run_info, pages_fetched, all_items, r, TRUE)
                /\ fpc' = "all_done"
    /\ probed' = TRUE
    /\ UNCHANGED <<served, max_pages, fetch_all, pages_fetched, all_items, cur,
                   requests, initial_params, all_report, logs_result, caller, groups_result>>
    /\ UNCHANGED <<tool_vars, page_vars, call_vars, auth_vars>>

\* `while response.has_next() and pages_fetched < max_pages`, up to the await
AllLoopTest ==
    /\ fpc = "all_loop"
    /\ LET r == served[cur]
       IN  IF ProbeRaises(r, probed)
           THEN /\ run_info' = Finalised(StoppedEarly(run_info, UnexpectedErrorReason),
                                         pages_fetched, all_items)
                /\ fpc' = "all_done"
           ELSE IF HandleAt(r, probed).has_next /\ UnderPageLimit(pages_fetched, max_pages)
           THEN /\ fpc' = "all_next"
                /\ UNCHANGED run_info
           ELSE /\ run_info' = AllAfterLoop(run_info, pages_fetched, all_items, r, TRUE)
                /\ fpc' = "all_done"
    /\ probed' = TRUE
    /\ UNCHANGED <<served, max_pages, fetch_all, pages_fetched, all_items, cur,
                   requests, initial_params, all_report, logs_result, caller, groups_result>>
    /\ UNCHANGED <<tool_vars, page_vars, call_vars, auth_vars>>

\* the loop body counting a page that came with an error or an exception
AllNextCountsFailure ==
    /\ fpc = "all_next"
    /\ Serve(cur + 1)
    /\ requests' = Append(requests, [page |-> cur + 1, after |-> None])
    /\ UNCHANGED initial_params
    /\ LET p == served'[cur + 1]
       IN  IF p.kind = "err"
           THEN /\ run_info' = AllAfterLoop(StoppedEarly(run_info, ApiErrorReason),
                                            pages_fetched + 1, all_items, served[cur], TRUE)
                /\ fpc' = "all_done"
                /\ pages_fetched' = pages_fetched + 1
                /\ UNCHANGED <<all_items, cur, probed>>
           ELSE IF p.kind = "raise"
           THEN /\ run_info' = AllAfterLoop(StoppedEarly(run_info, ExceptionReason),
                                            pages_fetched + 1, all_items, served[cur], TRUE)
                /\ fpc' = "all_done"
                /\ pages_fetched' = pages_fetched + 1
                /\ UNCHANGED <<all_items, cur, probed>>
           ELSE IF p.size = 0
           THEN /\ run_info' = AllAfterLoop(run_info, pages_fetched, all_items,
                                            served[cur], TRUE)
                /\ fpc' = "all_done"
                /\ UNCHANGED <<pages_fetched, all_items, cur, probed>>
           ELSE /\ all_items' = all_items \o PageItems(cur + 1, p.size)
                /\ pages_fetched' = pages_fetched + 1
                /\ cur' = cur + 1
                /\ probed' = FALSE
                /\ fpc' = "all_loop"
                /\ UNCHANGED run_info
    /\ UNCHANGED <<max_pages, fetch_all, all_report, logs_result, caller, groups_result>>
    /\ UNCHANGED <<tool_vars, page_vars, call_vars, auth_vars>>

\* `await response.next()` and the rest of the loop body
AllNext ==
    /\ fpc = "all_next"
    /\ Serve(cur + 1)
    /\ requests' = Append(requests, [page |-> cur + 1, after |-> None])
    /\ UNCHANGED initial_params
    /\ LET p == served'[cur + 1]
       IN  IF p.kind = "err"
           THEN /\ run_info' = AllAfterLoop(StoppedEarly(run_info, ApiErrorReason),
                                            pages_fetched, all_items, served[cur], TRUE)
                /\ fpc' = "all_done"
                /\ UNCHANGED <<pages_fetched, all_items, cur, probed>>
           ELSE IF p.kind = "raise"
           THEN /\ run_info' = AllAfterLoop(StoppedEarly(run_info, ExceptionReason),
                                            pages_fetched, all_items, served[cur], TRUE)
                /\ fpc' = "all_done"
                /\ UNCHANGED <<pages_fetched, all_items, cur, probed>>
           ELSE IF p.size = 0
           THEN /\ run_info' = AllAfterLoop(run_info, pages_fetched, all_items,
                                            served[cur], TRUE)
                /\ fpc' = "all_done"
                /\ UNCHANGED <<pages_fetched, all_items, cur, probed>>
           ELSE /\ all_items' = all_items \o PageItems(cur + 1, p.size)
                /\ pages_fetched' = pages_fetched + 1
                /\ cur' = cur + 1
                /\ probed' = FALSE
                /\ fpc' = "all_loop"
                /\ UNCHANGED run_info
    /\ UNCHANGED <<max_pages, fetch_all, all_report, logs_result, caller, groups_result>>
    /\ UNCHANGED <<tool_vars, page_vars, call_vars, auth_vars>>

\* the return with list_groups' envelope built as for a single page
ReturnAllSinglePage ==
    /\ fpc = "all_done"
    /\ IF caller = "list_groups"
       THEN /\ groups_result' = create_paginated_response(all_items, served[1].handle,
                                                          FALSE, run_info)
            /\ fpc' = "groups_done"
            /\ UNCHANGED <<pages_fetched, all_items, cur, run_info, requests, initial_params, caller,
                           probed, all_report>>
       ELSE /\ all_report' = [items |-> all_items, info |-> run_info]
            /\ fpc' = "idle"
            /\ FetchLocalsReset
    /\ UNCHANGED <<served, max_pages, fetch_all, logs_result>>
    /\ UNCHANGED <<tool_vars, page_vars, call_vars, auth_vars>>

\* `return all_items, pagination_info`, and for list_groups its closing
\* create_paginated_response(all_groups, response, fetch_all_used=True, ...)
ReturnAll ==
    /\ fpc = "all_done"
    /\ IF caller = "list_groups"
       THEN /\ groups_result' = create_paginated_response(all_items, served[1].handle,
                                                          TRUE, run_info)
            /\ fpc' = "groups_done"
            /\ UNCHANGED <<pages_fetched, all_items, cur, run_info, requests, initial_params, caller,
                           probed, all_report>>
       ELSE /\ all_report' = [items |-> all_items, info |-> run_info]
            /\ fpc' = "idle"
            /\ FetchLocalsReset
    /\ UNCHANGED <<served, max_pages, fetch_all, logs_result>>
    /\ UNCHANGED <<tool_vars, page_vars, call_vars, auth_vars>>

\* ---- get_logs and paginate_system_logs ----
\* a Python dict with string keys
Dict(d) == [tag |-> "dict", d |-> d]

\* `if value:` of build_query_params
Truthy(v) == v # None /\ v # Str(<<>>) /\ v # Num(0)

\* utils/pagination.py build_query_params as get_logs calls it: the
\* arguments that are given and non-empty, under their names
build_query_params(after, limit, since, until, filter, q) ==
    LET given == [after |-> after, limit |-> limit, since |-> since,
                  until |-> until, filter |-> filter, q |-> q]
    IN  Dict([k \in {n \in DOMAIN given : Truthy(given[n])} |-> given[k]])

\* the query dicts get_logs is tried with: no argument, and every argument
\* including a caller's cursor
QueryArgs ==
    { build_query_params(None, None, None, None, None, None),
      build_query_params(Str(<<"c0">>), Num(PageSize), Str(<<"S">>), Str(<<"U">>),
                         Str(<<"F">>), Str(<<"Q">>)) }

\* the follow-up dict holding the cursor alone
next_params_cursor_only(initial, cursor) ==
    Dict([k \in {"after"} |-> cursor])

\* `next_params = dict(initial_params); next_params["after"] = cursor`
next_params(initial, cursor) ==
    Dict([k \in DOMAIN initial.d \cup {"after"} |->
             IF k = "after" THEN cursor ELSE initial.d[k]])

\* `limit and len(initial_logs if pages_fetched == 1 else []) == limit`
got_full_page(pf, first_size, limit) ==
    limit # 0 /\ (IF pf = 1 THEN first_size ELSE 0) = limit

\* get_logs' closing create_paginated_response: without fetch_all it calls
\* has_next() (twice, the second time in extract_after_cursor), and what
\* that raises is caught by get_logs' except clause
GetLogsResponse(its, r, fa, info) ==
    IF ~fa /\ ProbeRaises(r, TRUE) THEN ErrorResult(Str(<<"Exception: ", "P">>))
    ELSE [create_paginated_response(its, r.handle, fa, info) EXCEPT
              !.next_cursor = IF fa THEN None
                              ELSE extract_after_cursor(HandleAt(r, TRUE))]

\* the page-limit test after the loop taken one page early
LogsAfterLoopEarly(info, pf, its) ==
    create_paginated_response(its, served[1].handle, TRUE,
        Finalised(IF pf + 1 >= max_pages
                  THEN StoppedEarly(info, MaxPagesReason(max_pages))
                  ELSE info,
                  pf, its))

\* paginate_system_logs after its loop, and get_logs' return of the result
LogsAfterLoop(info, pf, its) ==
    create_paginated_response(its, served[1].handle, TRUE,
        Finalised(IF pf >= max_pages
                  THEN StoppedEarly(info, MaxPagesReason(max_pages))
                  ELSE info,
                  pf, its))

\* get_logs up to the first page (a raising get_okta_client counts as a
\* raising first request), and the entry of paginate_system_logs
StartLogs ==
    /\ fpc = "idle"
    /\ fetch_all' \in BOOLEAN
    /\ LET first == served[1]
       IN  IF first.kind = "err"
           THEN /\ logs_result' = ErrorResult(Str(<<"Error: ", "E">>))
                /\ fpc' = "logs_done"
                /\ UNCHANGED <<pages_fetched, all_items, cur, run_info>>
           ELSE IF first.kind = "raise"
           THEN /\ logs_result' = ErrorResult(Str(<<"Exception: ", "X">>))
                /\ fpc' = "logs_done"
                /\ UNCHANGED <<pages_fetched, all_items, cur, run_info>>
           ELSE IF first.size = 0
           THEN /\ logs_result' = GetLogsResponse(<<>>, first, fetch_all', None)
                /\ fpc' = "logs_done"
                /\ UNCHANGED <<pages_fetched, all_items, cur, run_info>>
           ELSE IF ~fetch_all'
           THEN /\ logs_result' = GetLogsResponse(PageItems(1, first.size), first,
                                                  fetch_all', None)
                /\ fpc' = "logs_done"
                /\ UNCHANGED <<pages_fetched, all_items, cur, run_info>>
           ELSE /\ all_items' = PageItems(1, first.size)
                /\ pages_fetched' = 1
                /\ cur' = 1
                /\ run_info' = PaginationInfo(1, first.size, FALSE, None)
                /\ fpc' = "logs_loop"
                /\ logs_result' = NoResult
    /\ requests' = <<>>
    /\ IF fpc' = "logs_loop" THEN initial_params' \in QueryArgs
       ELSE initial_params' = None
    /\ UNCHANGED <<served, max_pages, all_report, caller, probed, groups_result>>
    /\ UNCHANGED <<tool_vars, page_vars, call_vars, auth_vars>>

\* one pass of `while pages_fetched < max_pages` up to the await: the cursor,
\* the three signals, the two breaks.  has_next() is called twice, by
\* extract_after_cursor and for sdk_says_has_more, outside any try: what it
\* raises leaves paginate_system_logs and is caught by get_logs
LogsLoop ==
    /\ fpc = "logs_loop"
    /\ LET r == served[cur]
           cursor == extract_after_cursor(r.handle)
           has_cursor == cursor # None
           full == got_full_page(pages_fetched, served[1].size, PageSize)
           sdk_says_has_more == r.handle.kind = "handle" /\ HandleAt(r, TRUE).has_next
       IN  IF ~UnderPageLimit(pages_fetched, max_pages)
           THEN /\ logs_result' = LogsAfterLoop(run_info, pages_fetched, all_items)
                /\ fpc' = "logs_done"
                /\ UNCHANGED run_info
           ELSE IF ProbeRaises(r, TRUE)
           THEN /\ logs_result' = ErrorResult(Str(<<"Exception: ", "P">>))
                /\ fpc' = "logs_done"
                /\ UNCHANGED run_info
           ELSE IF ~(has_cursor \/ full \/ sdk_says_has_more)
           THEN /\ logs_result' = LogsAfterLoop(run_info, pages_fetched, all_items)
                /\ fpc' = "logs_done"
                /\ UNCHANGED run_info
           ELSE IF ~has_cursor
           THEN /\ run_info' = IF full THEN StoppedEarly(run_info, NoCursorReason)
                               ELSE run_info
                /\ logs_result' = LogsAfterLoop(run_info', pages_fetched, all_items)
                /\ fpc' = "logs_done"
           ELSE /\ fpc' = "logs_request"
                /\ UNCHANGED <<run_info, logs_result>>
    /\ UNCHANGED <<served, max_pages, fetch_all, pages_fetched, all_items, cur,
                   requests, initial_params, all_report, caller, probed, groups_result>>
    /\ UNCHANGED <<tool_vars, page_vars, call_vars, auth_vars>>

\* the loop body sending the cursor of the first response on every page
LogsRequestFirstCursor ==
    /\ fpc = "logs_request"
    /\ Serve(cur + 1)
    /\ LET np == next_params(initial_params, extract_after_cursor(served[1].handle))
       IN  requests' = Append(requests,
                              [page |-> cur + 1, after |-> np.d["after"], params |-> np])
    /\ UNCHANGED initial_params
    /\ LET p == served'[cur + 1]
       IN  IF p.kind = "err"
           THEN /\ run_info' = StoppedEarly(run_info, ApiErrorReason)
                /\ logs_result' = LogsAfterLoop(run_info', pages_fetched, all_items)
                /\ fpc' = "logs_done"
                /\ UNCHANGED <<pages_fetched, all_items, cur>>
           ELSE IF p.kind = "raise"
           THEN /\ run_info' = StoppedEarly(run_info, ExceptionReason)
                /\ logs_result' = LogsAfterLoop(run_info', pages_fetched, all_items)
                /\ fpc' = "logs_done"
                /\ UNCHANGED <<pages_fetched, all_items, cur>>
           ELSE IF p.size = 0
           THEN /\ logs_result' = LogsAfterLoop(run_info, pages_fetched, all_items)
                /\ fpc' = "logs_done"
                /\ UNCHANGED <<pages_fetched, all_items, cur, run_info>>
           ELSE /\ all_items' = all_items \o PageItems(cur + 1, p.size)
                /\ pages_fetched' = pages_fetched + 1
                /\ cur' = cur + 1
                /\ fpc' = "logs_loop"
                /\ UNCHANGED <<run_info, logs_result>>
    /\ UNCHANGED <<max_pages, fetch_all, all_report, caller, probed, groups_result>>
    /\ UNCHANGED <<tool_vars, page_vars, call_vars, auth_vars>>

\* `await client.get_logs(next_params)` and the rest of the loop body
LogsRequest ==
    /\ fpc = "logs_request"
    /\ Serve(cur + 1)
    /\ LET np == next_params(initial_params, extract_after_cursor(served[cur].handle))
       IN  requests' = Append(requests,
                              [page |-> cur + 1, after |-> np.d["after"], params |-> np])
    /\ UNCHANGED initial_params
    /\ LET p == served'[cur + 1]
       IN  IF p.kind = "err"
           THEN /\ run_info' = StoppedEarly(run_info, ApiErrorReason)
                /\ logs_result' = LogsAfterLoop(run_info', pages_fetched, all_items)
                /\ fpc' = "logs_done"
                /\ UNCHANGED <<pages_fetched, all_items, cur>>
           ELSE IF p.kind = "raise"
           THEN /\ run_info' = StoppedEarly(run_info, ExceptionReason)
                /\ logs_result' = LogsAfterLoop(run_info', pages_fetched, all_items)
                /\ fpc' = "logs_done"
                /\ UNCHANGED <<pages_fetched, all_items, cur>>
           ELSE IF p.size = 0
           THEN /\ logs_result' = LogsAfterLoop(run_info, pages_fetched, all_items)
                /\ fpc' = "logs_done"
                /\ UNCHANGED <<pages_fetched, all_items, cur, run_info>>
           ELSE /\ all_items' = all_items \o PageItems(cur + 1, p.size)
                /\ pages_fetched' = pages_fetched + 1
                /\ cur' = cur + 1
                /\ fpc' = "logs_loop"
                /\ UNCHANGED <<run_info, logs_result>>
    /\ UNCHANGED <<max_pages, fetch_all, all_report, caller, probed, groups_result>>
    /\ UNCHANGED <<tool_vars, page_vars, call_vars, auth_vars>>

\* get_logs has returned
ReturnLogs ==
    /\ fpc = "logs_done"
    /\ fpc' = "idle"
    /\ FetchLocalsReset
    /\ fetch_all' = FALSE
    /\ UNCHANGED <<served, max_pages, all_report, logs_result>>
    /\ UNCHANGED <<tool_vars, page_vars, call_vars, auth_vars>>

\* ---- list_groups ----
\* list_groups' closing create_paginated_response(groups, response, fetch_all)
\* under the tool's except clause
ListGroupsResponse(its, r, fa, info) == GetLogsResponse(its, r, fa, info)

\* list_groups from the first page to its return or to the await of
\* paginate_all_results(response, groups).  The gate
\* `fetch_all and response and hasattr(response, "has_next") and response.has_next()`
\* makes the first has_next() call on the handle.
StartListGroups ==
    /\ fpc = "idle"
    /\ fetch_all' \in BOOLEAN
    /\ LET first == served[1]
       IN  IF first.kind = "err"
           THEN /\ groups_result' = ErrorResult(Str(<<"Error: ", "E">>))
                /\ fpc' = "groups_done"
                /\ UNCHANGED <<pages_fetched, all_items, cur, run_info, requests, initial_params,
                               caller, probed>>
           ELSE IF first.kind = "raise"
           THEN /\ groups_result' = ErrorResult(Str(<<"Exception: ", "X">>))
                /\ fpc' = "groups_done"
                /\ UNCHANGED <<pages_fetched, all_items, cur, run_info, requests, initial_params,
                               caller, probed>>
           ELSE IF first.size = 0
           THEN /\ groups_result' = ListGroupsResponse(<<>>, first, fetch_all', None)
                /\ fpc' = "groups_done"
                /\ UNCHANGED <<pages_fetched, all_items, cur, run_info, requests, initial_params,
                               caller, probed>>
           ELSE IF fetch_all' /\ ProbeRaises(first, FALSE)
           THEN /\ groups_result' = ErrorResult(Str(<<"Exception: ", "P">>))
                /\ fpc' = "groups_done"
                /\ UNCHANGED <<pages_fetched, all_items, cur, run_info, requests, initial_params,
                               caller, probed>>
           ELSE IF fetch_all' /\ first.handle.kind = "handle" /\ first.handle.has_next
           THEN /\ EnterAll(first)
                /\ caller' = "list_groups"
                /\ probed' = TRUE
                /\ groups_result' = NoResult
           ELSE /\ groups_result' = ListGroupsResponse(PageItems(1, first.size), first,
                                                       fetch_all', None)
                /\ fpc' = "groups_done"
                /\ UNCHANGED <<pages_fetched, all_items, cur, run_info, requests, initial_params,
                               caller, probed>>
    /\ UNCHANGED <<served, max_pages, all_report, logs_result>>
    /\ UNCHANGED <<tool_vars, page_vars, call_vars, auth_vars>>

\* list_groups has returned
ReturnGroups ==
    /\ fpc = "groups_done"
    /\ fpc' = "idle"
    /\ FetchLocalsReset
    /\ fetch_all' = FALSE
    /\ UNCHANGED <<served, max_pages, all_report, logs_result>>
    /\ UNCHANGED <<tool_vars, page_vars, call_vars, auth_vars>>

InitFetch ==
    /\ Idle /\ PageIdle
    /\ CallIdle /\ AuthIdle
    /\ fpc = "idle"
    /\ served \in {<<p>> : p \in FirstPages}
    /\ max_pages \in 1..MaxPages
    /\ fetch_all = FALSE
    /\ pages_fetched = 0 /\ all_items = <<>> /\ cur = 0 /\ run_info = None
    /\ requests = <<>> /\ all_report = NoResult /\ logs_result = NoResult
    /\ initial_params = None
    /\ caller = "direct" /\ probed = FALSE /\ groups_result = NoResult

NextFetch ==
    \/ StartAll
    \/ AllLoopTest
    \/ AllNext
    \/ ReturnAll
    \/ StartLogs
    \/ LogsLoop
    \/ LogsRequest
    \/ ReturnLogs

SpecFetch == InitFetch /\ [][NextFetch]_vars

\* list_groups is also given first pages whose handle counts its calls
InitGroups ==
    /\ Idle /\ PageIdle
    /\ CallIdle /\ AuthIdle
    /\ fpc = "idle"
    /\ served \in {<<p>> : p \in FirstPages \cup OncePages}
    /\ max_pages \in 1..MaxPages
    /\ fetch_all = FALSE
    /\ pages_fetched = 0 /\ all_items = <<>> /\ cur = 0 /\ run_info = None
    /\ requests = <<>> /\ all_report = NoResult /\ logs_result = NoResult
    /\ initial_params = None
    /\ caller = "direct" /\ probed = FALSE /\ groups_result = NoResult

\* list_groups and the paginate_all_results it awaits
NextGroups ==
    \/ StartListGroups
    \/ AllLoopTest
    \/ AllNext
    \/ ReturnAll
    \/ ReturnGroups

SpecGroups == InitGroups /\ [][NextGroups]_vars

(***************************************************************************)
(* Single calls: the page size a list tool sends, extract_after_cursor,    *)
(* validate_okta_id.  Integers are tagged so that they compare with None.  *)
(***************************************************************************)
Returned(v) == [tag |-> "returned", value |-> v]
Raised(e) == [tag |-> "raised", error |-> e]

\* `if limit < 20: limit = 20` / `elif limit > 100: limit = 100`
MIN_LIMIT == 20
MAX_LIMIT == 100

\* the tools with a "Validate limit parameter range" block
ClampingTools ==
    {"list_users", "list_groups", "list_group_users", "get_logs",
     "list_applications", "list_policies"}
LimitTools == ClampingTools \cup {"list_profile_mappings"}

\* the tool's local `limit` when the query parameters are built
ClampedLimit(t, limit) ==
    IF t \notin ClampingTools \/ limit = None THEN limit
    ELSE IF limit.n < MIN_LIMIT THEN Num(MIN_LIMIT)
    ELSE IF limit.n > MAX_LIMIT THEN Num(MAX_LIMIT)
    ELSE limit

\* the "limit" entry of the parameters handed to the Okta client: Missing
\* when the key is not set.  list_policies always sets it; the others set
\* it `if limit:` (build_query_params, applications.py, mappings.py)
SentLimit(t, limit) ==
    LET l == ClampedLimit(t, limit)
    IN  IF t = "list_policies" THEN l
        ELSE IF l = None \/ l.n = 0 THEN Missing
        ELSE l

Limits == {None} \cup {Num(n) : n \in (0 - MaxOver)..(MAX_LIMIT + MaxOver)}

\* a list tool from its entry to the parameters of its first Okta call
ListCall ==
    /\ cpc = "args" /\ fn \in LimitTools
    /\ ret' = SentLimit(fn, arg)
    /\ cpc' = "returned"
    /\ UNCHANGED <<fn, arg>>
    /\ UNCHANGED <<tool_vars, page_vars, fetch_vars, auth_vars>>

\* extract_after_cursor(response): has_next() is called before the try
\* block, so what it raises leaves the function
ExtractAfterCursorOf(r) ==
    IF ProbeRaises(r, FALSE) THEN Raised("has_next")
    ELSE Returned(extract_after_cursor(r.handle))

ProbedHandles ==
    {[handle |-> h, probe |-> "ok"] : h \in Handles}
        \cup {[handle |-> Handle("handle", TRUE, n), probe |-> "raise"] : n \in NextAttrs}

ExtractCall ==
    /\ cpc = "args" /\ fn = "extract_after_cursor"
    /\ ret' = ExtractAfterCursorOf(arg)
    /\ cpc' = "returned"
    /\ UNCHANGED <<fn, arg>>
    /\ UNCHANGED <<tool_vars, page_vars, fetch_vars, auth_vars>>

\* validate_okta_id(id_value): the value returned or the error raised
validate_okta_id(id_value) ==
    IF id_value = None \/ id_value = Num(0) \/ id_value = Str(<<>>) THEN Raised("empty")
    ELSE IF id_value.tag # "str" THEN Raised("not a string")
    ELSE IF \E k \in 1..Len(FORBIDDEN_PATTERNS) :
               ContainsRun(Lower(id_value.s), Lower(FORBIDDEN_PATTERNS[k]))
         THEN Raised("forbidden")
    ELSE IF ~VALID_OKTA_ID_PATTERN(id_value.s) THEN Raised("invalid characters")
    ELSE Returned(id_value)

\* the characters the enumerated IDs are made of
IdChars == {"a", "F", "f", "2", "%", ".", "/", "\n"}

IdValues ==
    Ids \cup {Num(0), Num(7)}
        \cup {Str(s) : s \in UNION {[1..k -> IdChars] : k \in 0..MaxIdLen}}
        \cup {Str(<<"0", "0", "u", "1", "\n">>), Str(<<"0", "0", "u", "1", "\n", "\n">>),
               Str(<<"%", "2", "E", "%", "2", "e">>), Str(<<"a", "%", "5", "C">>),
               Str(<<"a", "b", "?">>), Str(<<"a", "#">>), Str(<<"a", "\\", "b">>),
               Str(<<"a", "-", "b", "_", "c", "+", "1">>), Str(<<"a", " ", "b">>)}

ValidateCall ==
    /\ cpc = "args" /\ fn = "validate_okta_id"
    /\ ret' = validate_okta_id(arg)
    /\ cpc' = "returned"
    /\ UNCHANGED <<fn, arg>>
    /\ UNCHANGED <<tool_vars, page_vars, fetch_vars, auth_vars>>

InitCall ==
    /\ Idle /\ PageIdle /\ FetchIdle /\ AuthIdle
    /\ cpc = "args"
    /\ \/ fn \in LimitTools /\ arg \in Limits
       \/ fn = "extract_after_cursor" /\ arg \in ProbedHandles
       \/ fn = "validate_okta_id" /\ arg \in IdValues
    /\ ret = NoResult

NextCall ==
    \/ ListCall
    \/ ExtractCall
    \/ ValidateCall

SpecCall == InitCall /\ [][NextCall]_vars

(***************************************************************************)
(* utils/auth/auth_manager.py: is_valid_token with refresh_access_token    *)
(* and authenticate.  The keyring holds api_token and refresh_token; time  *)
(* is counted in ticks of token age.                                       *)
(***************************************************************************)
\* the identity provider during one call.  refresh: the answer to the
\* refresh grant ("200", "200_rotated" with a new refresh token, "401",
\* "unreachable" a RequestException, "malformed" a 200 without
\* access_token).  auth: the end of a full authentication.
IdpBehaviours ==
    [refresh : {"200", "200_rotated", "401", "unreachable", "malformed"},
     auth : {"token", "token_with_refresh", "denied", "unreachable"}]

AuthCall(op, returned) == [op |-> op, returned |-> returned]

\* the early-return test accepting a token whose age equals the duration
TokenFreshInclusive(tok, age, expiry) == tok # None /\ age <= expiry

\* `if api_token and token_age < expiry_duration`
TokenFresh(tok, age, expiry) == tok # None /\ age < expiry

\* what refresh_access_token() returns, or "raised" for the KeyError of
\* resp_json["access_token"]
RefreshOutcome(rt, answer) ==
    IF rt = None THEN "False"
    ELSE CASE answer \in {"200", "200_rotated"} -> "True"
           [] answer = "malformed" -> "raised"
           [] OTHER -> "False"

\* is_valid_token(expiry_duration) up to its return or to
\* `await self.authenticate()`; refresh_access_token is synchronous
CheckToken ==
    /\ apc = "idle"
    /\ expiry_duration' \in 1..MaxAge
    /\ idp' \in IdpBehaviours
    /\ entry' = [api_token |-> api_token, token_age |-> token_age]
    /\ IF TokenFresh(api_token, token_age, expiry_duration')
       THEN /\ valid' = Returned(TRUE)
            /\ apc' = "returned"
            /\ UNCHANGED <<api_token, refresh_token, token_age, auth_log>>
       ELSE IF use_browserless_auth
       THEN /\ apc' = "authenticate"
            /\ UNCHANGED <<api_token, refresh_token, token_age, auth_log, valid>>
       ELSE LET out == RefreshOutcome(refresh_token, idp'.refresh)
            IN  /\ auth_log' = <<AuthCall("refresh_access_token", out)>>
                /\ IF out = "True"
                   THEN /\ api_token' = Str(<<"refreshed">>)
                        /\ refresh_token' = IF idp'.refresh = "200_rotated"
                                            THEN Str(<<"rotated">>) ELSE refresh_token
                        /\ token_age' = 0
                        /\ valid' = Returned(api_token' # None)
                        /\ apc' = "returned"
                   ELSE IF out = "raised"
                   THEN /\ valid' = Raised("KeyError")
                        /\ apc' = "returned"
                        /\ UNCHANGED <<api_token, refresh_token, token_age>>
                   ELSE /\ apc' = "authenticate"
                        /\ UNCHANGED <<api_token, refresh_token, token_age, valid>>
    /\ UNCHANGED use_browserless_auth
    /\ UNCHANGED inv
    /\ UNCHANGED <<tool_vars, page_vars, fetch_vars, call_vars>>

\* authenticate() and the closing
\* `return keyring.get_password(SERVICE_NAME, "api_token") is not None`.
\* A failed browserless authentication and an unreachable device
\* authorization endpoint end the process (sys.exit(1)).
Authenticate ==
    /\ apc = "authenticate"
    /\ IF idp.auth \in {"token", "token_with_refresh"}
       THEN /\ api_token' = Str(<<"authenticated">>)
            /\ token_age' = 0
            /\ refresh_token' = IF ~use_browserless_auth /\ idp.auth = "token_with_refresh"
                                THEN Str(<<"granted">>) ELSE refresh_token
            /\ auth_log' = Append(auth_log, AuthCall("authenticate", "None"))
            /\ valid' = Returned(api_token' # None)
            /\ apc' = "returned"
       ELSE IF use_browserless_auth \/ idp.auth = "unreachable"
       THEN /\ auth_log' = Append(auth_log, AuthCall("authenticate", "SystemExit"))
            /\ valid' = Raised("SystemExit")
            /\ apc' = "exited"
            /\ UNCHANGED <<api_token, refresh_token, token_age>>
       ELSE /\ auth_log' = Append(auth_log, AuthCall("authenticate", "None"))
            /\ valid' = Returned(api_token # None)
            /\ apc' = "returned"
            /\ UNCHANGED <<api_token, refresh_token, token_age>>
    /\ UNCHANGED <<use_browserless_auth, expiry_duration, idp, entry>>
    /\ UNCHANGED inv
    /\ UNCHANGED <<tool_vars, page_vars, fetch_vars, call_vars>>

\* is_valid_token has returned to get_okta_client
ReturnValid ==
    /\ apc = "returned"
    /\ apc' = "idle"
    /\ entry' = None /\ auth_log' = <<>> /\ valid' = NoResult
    /\ UNCHANGED <<api_token, refresh_token, token_age, use_browserless_auth,
                   expiry_duration, idp>>
    /\ UNCHANGED inv
    /\ UNCHANGED <<tool_vars, page_vars, fetch_vars, call_vars>>

\* time passes between calls
Tick ==
    /\ apc = "idle"
    /\ token_age < MaxAge
    /\ token_age' = token_age + 1
    /\ UNCHANGED <<apc, api_token, refresh_token, use_browserless_auth,
                   expiry_duration, idp, entry, auth_log, valid>>
    /\ UNCHANGED inv
    /\ UNCHANGED <<tool_vars, page_vars, fetch_vars, call_vars>>

\* clear_tokens(): both keyring entries deleted, token_timestamp = 0
ClearTokens ==
    /\ apc = "idle"
    /\ api_token' = None /\ refresh_token' = None
    /\ token_age' = MaxAge
    /\ UNCHANGED <<apc, use_browserless_auth, expiry_duration, idp, entry,
                   auth_log, valid>>
    /\ UNCHANGED inv
    /\ UNCHANGED <<tool_vars, page_vars, fetch_vars, call_vars>>

\* a fresh manager (token_timestamp = 0) over a keyring that may hold the
\* tokens of an earlier run
InitAuth ==
    /\ Idle /\ PageIdle /\ FetchIdle /\ CallIdle
    /\ apc = "idle"
    /\ api_token \in {None, Str(<<"old">>)}
    /\ refresh_token \in {None, Str(<<"old">>)}
    /\ token_age = MaxAge
    /\ use_browserless_auth \in BOOLEAN
    /\ expiry_duration = 1
    /\ idp = [refresh |-> "401", auth |-> "denied"]
    /\ entry = None /\ auth_log = <<>> /\ valid = NoResult
    /\ inv = [i \in Invocations |-> IdleInvocation]

NextAuth ==
    \/ CheckToken
    \/ Authenticate
    \/ ReturnValid
    \/ Tick
    \/ ClearTokens

SpecAuth == InitAuth /\ [][NextAuth]_vars

(***************************************************************************)
(* Tool invocations side by side.  Each invocation is get_group(group_id): *)
(* get_okta_client(manager), which has no suspension point of its own      *)
(* (keyring and requests are synchronous), then the awaited Okta call,     *)
(* then the return.  The invocations share the manager and the keyring.    *)
(* expiry_duration stands for is_valid_token's default.                    *)
(***************************************************************************)
GroupIds == {"00g1", "00g2"}

OktaAnswers == {"ok", "err", "raise"}

\* get_group's result built from a value kept outside the invocation
GetGroupResultWithToken(group_id, answer) ==
    CASE answer = "ok" -> [tag |-> "list", group |-> group_id, token |-> api_token]
      [] answer = "err" -> ErrorResult(Str(<<"Error: ", "E">>))
      [] OTHER -> [tag |-> "list", text |-> Str(<<"Exception: ", "X">>)]

\* get_group after `group, _, err = await client.get_group(group_id)`
GetGroupResult(group_id, answer) ==
    CASE answer = "ok" -> [tag |-> "list", group |-> group_id]
      [] answer = "err" -> ErrorResult(Str(<<"Error: ", "E">>))
      [] OTHER -> [tag |-> "list", text |-> Str(<<"Exception: ", "X">>)]

\* the keyring and the timestamp after is_valid_token() with the identity
\* provider answering as `answer`, and how the call ended: "True", "False",
\* "KeyError" or "SystemExit"
IsValidToken(answer) ==
    LET same == [api_token |-> api_token, refresh_token |-> refresh_token,
                 token_age |-> token_age]
        authenticated ==
            [api_token |-> Str(<<"authenticated">>),
             refresh_token |-> IF ~use_browserless_auth /\ answer.auth = "token_with_refresh"
                               THEN Str(<<"granted">>) ELSE refresh_token,
             token_age |-> 0]
        authenticate ==
            IF answer.auth \in {"token", "token_with_refresh"}
            THEN [after |-> authenticated, ended |-> "True"]
            ELSE IF use_browserless_auth \/ answer.auth = "unreachable"
            THEN [after |-> same, ended |-> "SystemExit"]
            ELSE [after |-> same,
                  ended |-> IF api_token # None THEN "True" ELSE "False"]
        out == RefreshOutcome(refresh_token, answer.refresh)
    IN  IF TokenFresh(api_token, token_age, expiry_duration)
        THEN [after |-> same, ended |-> "True"]
        ELSE IF use_browserless_auth THEN authenticate
        ELSE IF out = "True"
        THEN [after |-> [api_token |-> Str(<<"refreshed">>),
                         refresh_token |-> IF answer.refresh = "200_rotated"
                                           THEN Str(<<"rotated">>) ELSE refresh_token,
                         token_age |-> 0],
              ended |-> "True"]
        ELSE IF out = "raised" THEN [after |-> same, ended |-> "KeyError"]
        ELSE authenticate

\* get_group from its entry to its first suspension: get_okta_client reads
\* api_token, awaits is_valid_token(), and only after a False authenticates
\* again and re-reads the token; the client is built with the token read
\* that way and the Okta call is issued
GetOktaClient(i) ==
    /\ apc = "idle"
    /\ inv[i].pc = "idle"
    /\ \E g \in GroupIds, answer \in IdpBehaviours, again \in {"token", "denied", "unreachable"} :
          LET read == api_token
              v == IsValidToken(answer)
          IN  IF v.ended = "SystemExit" \/ (v.ended = "False" /\ again = "unreachable")
              THEN /\ apc' = "exited"
                   /\ UNCHANGED <<api_token, refresh_token, token_age, inv>>
              ELSE IF v.ended = "KeyError"
              THEN /\ inv' = [inv EXCEPT ![i] =
                               [pc |-> "done", arg |-> g, bearer |-> None,
                                response |-> None,
                                result |-> [tag |-> "list",
                                            text |-> Str(<<"Exception: ", "K">>)]]]
                   /\ UNCHANGED <<apc, api_token, refresh_token, token_age>>
              ELSE /\ IF v.ended = "False" /\ again = "token"
                      THEN /\ api_token' = Str(<<"authenticated">>)
                           /\ token_age' = 0
                           /\ refresh_token' = v.after.refresh_token
                      ELSE /\ api_token' = v.after.api_token
                           /\ token_age' = v.after.token_age
                           /\ refresh_token' = v.after.refresh_token
                   /\ inv' = [inv EXCEPT ![i] =
                               [pc |-> "awaiting", arg |-> g,
                                bearer |-> IF v.ended = "False" THEN api_token' ELSE read,
                                response |-> None, result |-> NoResult]]
                   /\ UNCHANGED apc
    /\ UNCHANGED <<use_browserless_auth, expiry_duration, idp, entry, auth_log, valid>>
    /\ UNCHANGED <<tool_vars, page_vars, fetch_vars, call_vars>>

\* the awaited client.get_group(group_id) comes back and get_group builds
\* its result
OktaResponds(i) ==
    /\ apc = "idle"
    /\ inv[i].pc = "awaiting"
    /\ \E answer \in OktaAnswers :
          inv' = [inv EXCEPT ![i] =
                    [@ EXCEPT !.pc = "done", !.bearer = None,
                              !.response = Str(<<answer>>),
                              !.result = GetGroupResult(inv[i].arg, answer)]]
    /\ UNCHANGED <<apc, api_token, refresh_token, token_age, use_browserless_auth,
                   expiry_duration, idp, entry, auth_log, valid>>
    /\ UNCHANGED <<tool_vars, page_vars, fetch_vars, call_vars>>

\* get_group has returned; the slot takes the next invocation
ToolReturns(i) ==
    /\ apc = "idle"
    /\ inv[i].pc = "done"
    /\ inv' = [inv EXCEPT ![i] = IdleInvocation]
    /\ UNCHANGED <<apc, api_token, refresh_token, token_age, use_browserless_auth,
                   expiry_duration, idp, entry, auth_log, valid>>
    /\ UNCHANGED <<tool_vars, page_vars, fetch_vars, call_vars>>

InitConc ==
    /\ Idle /\ PageIdle /\ FetchIdle /\ CallIdle
    /\ apc = "idle"
    /\ api_token \in {None, Str(<<"old">>)}
    /\ refresh_token \in {None, Str(<<"old">>)}
    /\ token_age = MaxAge
    /\ use_browserless_auth \in BOOLEAN
    /\ expiry_duration = MaxAge
    /\ idp = [refresh |-> "401", auth |-> "denied"]
    /\ entry = None /\ auth_log = <<>> /\ valid = NoResult
    /\ inv = [i \in Invocations |-> IdleInvocation]

NextConc ==
    \/ \E i \in Invocations : GetOktaClient(i)
    \/ \E i \in Invocations : OktaResponds(i)
    \/ \E i \in Invocations : ToolReturns(i)
    \/ Tick

SpecConc == InitConc /\ [][NextConc]_vars

(***************************************************************************)
(* Properties                                                              *)
(***************************************************************************)
AcceptedTrue(r) == r.kind = "accept" /\ r.data = Form(TRUE, TRUE)

\* the user declined, cancelled, or accepted with confirm = false
UserRefused(r) ==
    \/ r.kind \in {"decline", "cancel"}
    \/ r.kind = "accept" /\ r.data = Form(TRUE, FALSE)

\* the client lacks the capability, or the exchange raises
NoElicitation(c) == ~supports_elicitation(c) \/ c.elicit.kind = "raise"

\* C1: a result built with fetch_all_used = true has has_more = false and
\* next_cursor = null whatever the handle says, and an early stop shows only
\* in the embedded pagination_info, which is carried unchanged.
C1_FetchAllHasNoMore ==
    (ppc = "built" /\ paginated.fetch_all_used) =>
        /\ paginated.has_more = FALSE
        /\ paginated.next_cursor = None
        /\ (pagination_info # None /\ pagination_info # EmptyDict) =>
                paginated.pagination_info = pagination_info

C1_Witness ==
    /\ ppc = "built" /\ fetch_all_used
    /\ response.kind = "handle" /\ response.has_next
    /\ extract_after_cursor(response) = Str(<<"C123">>)
    /\ pagination_info # None /\ pagination_info # EmptyDict
    /\ pagination_info.stopped_early
    /\ paginated.pagination_info.stopped_early /\ ~paginated.has_more

\* C2 (as claimed): with elicitation supported and the user declining,
\* cancelling or accepting with confirm = false, delete_policy,
\* delete_policy_rule, deactivate_policy, deactivate_policy_rule and
\* deactivate_application answer "cancelled" and never call the Okta API.
C2_RefusalStopsDirectTools ==
    (tool \in DirectTools /\ supports_elicitation(ctx) /\ UserRefused(ctx.elicit)) =>
        /\ okta_calls = <<>>
        /\ pc = "done" => result.kind = "cancelled"

\* C3 (as claimed): in an invocation of a destructive tool, no call on the
\* Okta client is made before elicit_or_fallback has returned its outcome.
C3_MediatorBeforeOkta ==
    (tool \in DestructiveTools /\ okta_calls # <<>>) => outcome # NoOutcome

\* C4: deactivate_user and delete_deactivated_user obtain the Okta client and
\* call the Okta API only when the mediator's outcome has confirmed = true;
\* when the user declines, cancels or accepts with confirm = false they
\* answer "cancelled", make no Okta call and do not obtain the client.
C4_UserToolsNeedConfirmation ==
    tool \in UserTools =>
        /\ (okta_calls # <<>> \/ client_gets > 0) =>
                (outcome # NoOutcome /\ outcome.confirmed)
        /\ (elicit_calls > 0 /\ UserRefused(ctx.elicit)) =>
                /\ okta_calls = <<>> /\ client_gets = 0
                /\ pc \in {"decide", "done"}
                /\ pc = "done" => result.kind = "cancelled"

C4_Witness ==
    /\ tool = "delete_deactivated_user" /\ pc = "done"
    /\ elicit_calls = 1 /\ ctx.elicit = Reply("accept", Form(TRUE, FALSE), "-")
    /\ result.kind = "cancelled" /\ client_gets = 0

\* C5: whenever elicit_or_fallback used the exchange, confirmed is true only
\* for an accepted result whose confirm field is true; declined, cancelled,
\* accepted without data, accepted with confirm omitted or false, and an
\* unexpected shape all give confirmed = false with used_elicitation = true.
C5_FailClosed ==
    outcome # NoOutcome =>
        /\ outcome.used_elicitation =>
                /\ elicit_calls = 1 /\ ctx.elicit.kind # "raise"
                /\ outcome.confirmed = AcceptedTrue(ctx.elicit)
        /\ (elicit_calls > 0 /\ ctx.elicit.kind # "raise") =>
                /\ outcome.used_elicitation
                /\ ~AcceptedTrue(ctx.elicit) => ~outcome.confirmed

C5_Witness ==
    /\ outcome # NoOutcome /\ outcome.used_elicitation /\ ~outcome.confirmed
    /\ ctx.elicit = Reply("accept", Form(FALSE, FALSE), "-")

C7_LegacyDeleteAsksFirst ==
    (tool \in LegacyDeleteTools /\ NoElicitation(ctx)) =>
        /\ okta_calls = <<>> /\ client_gets = 0
        /\ pc = "done" => result.confirmation_required

C7_Witness ==
    /\ tool = "delete_group" /\ pc = "done"
    /\ ~supports_elicitation(ctx)
    /\ result.confirmation_required /\ okta_calls = <<>>

\* C8 (as claimed): the confirm_* tools call the Okta delete API only if
\* confirmation is exactly 'DELETE'; for every other string they return a
\* cancellation error and make no Okta call.
C8_WrongConfirmationCancels ==
    tool \in ConfirmTools =>
        /\ okta_calls # <<>> => confirmation = DELETE
        /\ (pc = "done" /\ confirmation # DELETE) =>
                (result.kind = "cancelled" /\ okta_calls = <<>>)

\* C8 (amended): the confirm_* tools call the Okta delete API only if
\* confirmation is exactly 'DELETE'; for every other string they make no
\* Okta call and return a cancellation error, except that
\* confirm_delete_group returns the validation error when group_id fails
\* validate_okta_id.
C8_WrongConfirmationNeverDeletes ==
    tool \in ConfirmTools =>
        /\ (okta_calls # <<>> \/ client_gets > 0) => confirmation = DELETE
        /\ (pc = "done" /\ confirmation # DELETE) =>
                /\ okta_calls = <<>>
                /\ result.kind =
                      IF tool = "confirm_delete_group" /\ ValidateOktaIdRaises(id_arg)
                      THEN "invalid_id" ELSE "cancelled"

C8_Witness ==
    /\ tool = "confirm_delete_group" /\ pc = "done"
    /\ confirmation = <<"d", "e", "l", "e", "t", "e">>
    /\ ~ValidateOktaIdRaises(id_arg)
    /\ result.kind = "cancelled" /\ okta_calls = <<>>

\* C9 (as claimed): with elicitation supported and the user accepting with
\* confirm = true, delete_group / delete_application call the Okta delete
\* API exactly once for that ID in the same invocation and answer
\* '<Group|Application> <id> deleted successfully'.
C9_AcceptDeletesAtOnce ==
    (/\ tool \in LegacyDeleteTools /\ pc = "done"
     /\ supports_elicitation(ctx) /\ AcceptedTrue(ctx.elicit)) =>
        /\ okta_calls = <<[op |-> tool, id |-> id_arg]>>
        /\ result.kind = "success"

CapabilityAdvertised(c) == c.probe = Probe("ok", "ok", "ok", "set")

\* C11: when the capability probe reports elicitation absent, the outcome
\* of elicit_or_fallback is fixed by auto_confirm_on_fallback: true gives
\* (confirmed, not used_elicitation, no fallback_response); false gives
\* (not confirmed, not used_elicitation, fallback_response = the payload the
\* caller supplied, or {confirmation_required: true, message} when the
\* caller supplied none; `fallback_payload or {...}` counts an empty dict as
\* none).  No exchange is issued.
C11_FallbackPolicyDeterminism ==
    (tool = Mediator /\ pc = "done" /\ ~supports_elicitation(ctx)) =>
        /\ elicit_calls = 0
        /\ IF auto_confirm_on_fallback
           THEN outcome = ElicitationOutcome(TRUE, FALSE, None)
           ELSE outcome = ElicitationOutcome(FALSE, FALSE,
                    IF fallback_payload \in {None, EmptyDict}
                    THEN [tag |-> "dict", empty |-> FALSE,
                          confirmation_required |-> TRUE,
                          message |-> Message(tool, id_arg)]
                    ELSE fallback_payload)

C11_Witness ==
    /\ tool = Mediator /\ pc = "done" /\ ~supports_elicitation(ctx)
    /\ ~auto_confirm_on_fallback /\ fallback_payload = CustomPayload
    /\ outcome.fallback_response = CustomPayload /\ ~outcome.confirmed

\* C12: in every outcome elicit_or_fallback returns (capability absent,
\* exchange completed, exchange failed) fallback_response is non-null if and
\* only if used_elicitation is false and auto_confirm_on_fallback is false.
C12_FallbackResponseIff ==
    (outcome # NoOutcome /\ outcome.tag = "outcome") =>
        ((outcome.fallback_response # None)
            <=> (~outcome.used_elicitation /\ ~auto_confirm_on_fallback))

C12_Witness ==
    /\ tool = Mediator /\ pc = "done"
    /\ supports_elicitation(ctx) /\ ctx.elicit.kind = "raise"
    /\ ~auto_confirm_on_fallback
    /\ outcome.fallback_response # None /\ ~outcome.used_elicitation

C14_MediatorNeverRaises ==
    (tool = Mediator /\ pc = "done") =>
        /\ outcome.tag = "outcome"
        /\ outcome.confirmed \in BOOLEAN
        /\ outcome.used_elicitation \in BOOLEAN
        /\ result = NoResult
        /\ ~CapabilityAdvertised(ctx) =>
                /\ elicit_calls = 0
                /\ ~outcome.used_elicitation
                /\ outcome.confirmed = auto_confirm_on_fallback

C14_Witness ==
    /\ tool = Mediator /\ pc = "done"
    /\ ctx.probe.session = "raise"
    /\ outcome.tag = "outcome" /\ elicit_calls = 0

\* get_logs has run paginate_system_logs (fetch_all, a first page of logs)
\* and is about to return
LogsFetched ==
    /\ fpc = "logs_done" /\ fetch_all
    /\ served[1].kind = "ok" /\ served[1].size > 0

\* paginate_system_logs left its loop at the test of the three signals,
\* after accepting the page it holds: no request failed or came back empty,
\* has_next() did not raise, the page limit was not reached
StoppedAtDecision ==
    /\ LogsFetched /\ ~IsError(logs_result)
    /\ Len(requests) = pages_fetched - 1
    /\ pages_fetched < max_pages

\* C15 (as claimed): in paginate_system_logs, whenever the page fetched
\* last (the first or a later one) is exactly full and its response yields
\* no cursor, the paginator stops and reports stopped_early = true with the
\* stop reason naming the missing cursor.
C15_FullPageWithoutCursorStopsEarly ==
    (StoppedAtDecision
        /\ served[cur].size = PageSize
        /\ extract_after_cursor(served[cur].handle) = None) =>
        /\ logs_result.pagination_info.stopped_early
        /\ logs_result.pagination_info.stop_reason = NoCursorReason

\* C16 (as claimed): with has_next() false on every response, every page
\* exactly full and every next-page locator carrying an after cursor,
\* paginate_system_logs (max_pages of 2 or more) has issued at least one
\* further request by the time it returns.
C16_FullPagesWithCursorContinue ==
    (LogsFetched /\ max_pages >= 2
        /\ \A k \in 1..Len(served) :
              served[k] = PageResponse("ok", PageSize,
                              Handle("handle", FALSE, Str(AfterLocator(k))), "ok")) =>
        Len(requests) >= 1

\* C17 (as claimed): paginate_system_logs issues a further request only
\* with an extracted cursor, and when, after the page fetched last, no cursor
\* is extractable, that page is not full and has_next() is false, it stops
\* with stopped_early = false and stop_reason = null.
C17_ThreeSignalDecision ==
    (LogsFetched /\ ~IsError(logs_result)) =>
        /\ \A i \in 1..Len(requests) : requests[i].after # None
        /\ ( /\ Len(requests) = pages_fetched - 1
             /\ extract_after_cursor(served[cur].handle) = None
             /\ served[cur].size # PageSize
             /\ ~(served[cur].handle.kind = "handle" /\ served[cur].handle.has_next) ) =>
                /\ ~logs_result.pagination_info.stopped_early
                /\ logs_result.pagination_info.stop_reason = None

\* C18 (as claimed): run on the same page responses with the same
\* max_pages, where every response has a cursor exactly when has_next() is
\* true, so that the runs end by an API error, an exception, an empty page,
\* the page limit or the end of the data, paginate_system_logs and
\* paginate_all_results report the same stopped_early and stop_reason; and
\* paginate_system_logs records the page-limit reason only when the handle
\* of the last page still reports more data.
C18_SameStopReports ==
    (fpc = "idle" /\ all_report # NoResult /\ logs_result # NoResult
        /\ ~IsError(logs_result) /\ logs_result.pagination_info # Missing) =>
        LET info == logs_result.pagination_info
        IN  /\ ( /\ \A k \in 1..Len(served) :
                       served[k].kind = "ok" =>
                           /\ served[k].handle.kind = "handle"
                           /\ served[k].probe = "ok"
                           /\ served[k].handle.has_next
                                 <=> (extract_after_cursor(served[k].handle) # None)
                 /\ info.stop_reason # NoCursorReason ) =>
                    /\ info.stopped_early = all_report.info.stopped_early
                    /\ info.stop_reason = all_report.info.stop_reason
            /\ info.stop_reason = MaxPagesReason(max_pages) =>
                    /\ served[info.pages_fetched].handle.kind = "handle"
                    /\ served[info.pages_fetched].handle.has_next

\* C19 (as claimed): get_logs with fetch_all = true and a first page of
\* logs returns a paginated envelope with every item accumulated, never a
\* bare error; when the last page request raised, pagination_info has
\* stopped_early = true and the exception text as stop reason.
C19_ExceptionsAbsorbed ==
    LogsFetched =>
        /\ ~IsError(logs_result)
        /\ logs_result.items = all_items
        /\ (Len(requests) >= 1 /\ served[Len(requests) + 1].kind = "raise") =>
                /\ logs_result.pagination_info.stopped_early
                /\ logs_result.pagination_info.stop_reason = ExceptionReason

\* a paginator is running, or has filled its report and not yet returned
Paginating ==
    \/ fpc \in {"all_loop", "all_next", "all_done", "logs_loop", "logs_request"}
    \/ fpc = "logs_done" /\ run_info # None

\* C20: in a run of paginate_all_results or paginate_system_logs (max_pages
\* >= 1) pages_fetched starts at 1, stays within 1..max_pages in every
\* state and in the returned report, never decreases, and grows, by exactly
\* one, exactly when a requested page came back without error and non-empty.
C20_PagesFetchedMonotone ==
    /\ [](Paginating =>
            /\ pages_fetched >= 1 /\ pages_fetched <= max_pages
            /\ pages_fetched = Len(requests) + 1 \/ pages_fetched = Len(requests)
            /\ fpc = "all_done" => run_info.pages_fetched = pages_fetched
            /\ (fpc = "logs_done" /\ ~IsError(logs_result)) =>
                    logs_result.pagination_info.pages_fetched = pages_fetched)
    /\ [][ /\ (~Paginating /\ Paginating') => pages_fetched' = 1
           /\ (Paginating /\ Paginating') =>
                pages_fetched' =
                    IF /\ Len(requests') = Len(requests) + 1
                       /\ served'[Len(requests') + 1].kind = "ok"
                       /\ served'[Len(requests') + 1].size > 0
                    THEN pages_fetched + 1
                    ELSE pages_fetched ]_vars

C20_Witness ==
    /\ fpc = "logs_done" /\ ~IsError(logs_result)
    /\ max_pages = 3 /\ pages_fetched = 3 /\ Len(requests) = 2
    /\ logs_result.pagination_info.pages_fetched = 3
    /\ all_report # NoResult /\ all_report.info.pages_fetched = 3

\* the items of the first k pages of the script, in fetch order
RECURSIVE AccumulatedPages(_)
AccumulatedPages(k) ==
    IF k = 0 THEN <<>>
    ELSE AccumulatedPages(k - 1) \o PageItems(k, served[k].size)

\* the first k pages of the script were accepted: each came without error
\* and, after the first, with items
PagesAccepted(k) ==
    \A j \in 1..k : served[j].kind = "ok" /\ (j > 1 => served[j].size > 0)

\* C21: the item list paginate_all_results and paginate_system_logs return
\* is exactly the first page followed by each accepted later page in fetch
\* order (nothing dropped, duplicated or reordered), the report's final
\* total_items is the length of that list, i.e. the sum of the sizes of the
\* accumulated pages, and a page that came with an error is not in it.
C21_ItemsAreAccumulatedPages ==
    /\ fpc = "all_done" =>
        /\ PagesAccepted(cur)
        /\ all_items = AccumulatedPages(cur)
        /\ run_info.total_items = Len(all_items)
    /\ (fpc = "logs_done" /\ cur >= 1 /\ ~IsError(logs_result)) =>
        /\ PagesAccepted(cur)
        /\ logs_result.items = AccumulatedPages(cur)
        /\ logs_result.pagination_info.total_items = Len(logs_result.items)
    /\ (fpc = "idle" /\ all_report # NoResult) =>
        /\ all_report.info.total_items = Len(all_report.items)
        /\ \E k \in 1..Len(served) :
              PagesAccepted(k) /\ all_report.items = AccumulatedPages(k)

C21_Witness ==
    /\ fpc = "all_done" /\ cur = 2
    /\ Len(served) = 3 /\ served[3].kind = "err"
    /\ Len(all_items) = PageSize + 1
    /\ run_info.total_items = PageSize + 1

\* paginate_all_results is about to return with max_pages pages fetched,
\* from a handle that is absent, has no probe, or whose has_next() answers
\* the same at every call
AtPageLimit ==
    /\ fpc = "all_done" /\ pages_fetched = max_pages
    /\ served[cur].handle.kind = "handle" => served[cur].probe = "ok"

\* C22: when paginate_all_results has fetched max_pages pages and the handle
\* still reports more data, it has issued no request beyond those pages and
\* returns all their items with stopped_early = true and the stop reason
\* naming the limit; when the handle reports no more data at that point,
\* stopped_early stays false.
C22_PageLimitStop ==
    AtPageLimit =>
        /\ Len(requests) = max_pages - 1
        /\ all_items = AccumulatedPages(max_pages)
        /\ IF served[cur].handle.kind = "handle" /\ served[cur].handle.has_next
           THEN /\ run_info.stopped_early
                /\ run_info.stop_reason = MaxPagesReason(max_pages)
           ELSE /\ ~run_info.stopped_early
                /\ run_info.stop_reason = None

C22_Witness ==
    /\ AtPageLimit /\ max_pages = 3
    /\ served[3].handle.has_next
    /\ Len(all_items) = 1 + PageSize + 1
    /\ run_info.stop_reason = MaxPagesReason(3)

\* the request paginate_all_results made last came back with an error or
\* raised, and the paginator is about to return
NextPageFailed ==
    /\ fpc = "all_done" /\ Len(requests) >= 1
    /\ served[Len(requests) + 1].kind \in {"err", "raise"}

\* C23: if a next-page fetch in paginate_all_results returns an error or
\* raises, the paginator fetches nothing more (no retry: its next step is the
\* return of what it holds), returns every item accumulated before the
\* failure, does not count the failed page in pages_fetched, and reports
\* stopped_early = true with a stop_reason embedding the error or exception
\* text.
C23_FailedPageStops ==
    /\ [](NextPageFailed =>
            /\ pages_fetched = Len(requests)
            /\ run_info.pages_fetched = Len(requests)
            /\ all_items = AccumulatedPages(Len(requests))
            /\ run_info.total_items = Len(all_items)
            /\ run_info.stopped_early
            /\ run_info.stop_reason =
                    IF served[Len(requests) + 1].kind = "err" THEN ApiErrorReason
                    ELSE ExceptionReason)
    /\ [][NextPageFailed =>
            /\ fpc' = "idle"
            /\ served' = served
            /\ all_report' = [items |-> all_items, info |-> run_info]]_vars

C23_Witness ==
    /\ NextPageFailed /\ Len(requests) = 2 /\ max_pages >= 3
    /\ served[3].kind = "raise"
    /\ Len(all_items) = PageSize + 1
    /\ run_info.stop_reason = ExceptionReason

\* C26: in every result built by create_paginated_response total_fetched is
\* the length of items; and when fetch_all_used is false, has_more is what
\* the handle's has_next() answers (false for a null handle or one without
\* the probe) and next_cursor is extract_after_cursor(handle).
C26_EnvelopeFromHandle ==
    ppc = "built" =>
        /\ paginated.items = items
        /\ paginated.total_fetched = Len(items)
        /\ ~fetch_all_used =>
            /\ paginated.has_more = (response.kind = "handle" /\ response.has_next)
            /\ paginated.next_cursor = extract_after_cursor(response)

C26_Witness ==
    /\ ppc = "built" /\ ~fetch_all_used
    /\ Len(items) = MaxItems /\ paginated.total_fetched = MaxItems
    /\ response.kind = "handle" /\ response.has_next
    /\ paginated.has_more
    /\ paginated.next_cursor = Str(<<"C123">>)

\* list_groups(fetch_all=True) is about to return after a first page with
\* groups
GroupsFetched ==
    /\ fpc = "groups_done" /\ fetch_all
    /\ served[1].kind = "ok" /\ served[1].size > 0

InvalidIdChecked ==
    /\ tool \in UserTools
    /\ id_arg # None /\ ValidateOktaIdRaises(id_arg)
    /\ pc \notin {"idle", "validate_ids"}

\* C29: for a tool wrapped by validate_ids, if the ID argument is not None
\* and fails validate_okta_id, the wrapped body is never executed and an
\* error result is returned: deactivate_user and delete_deactivated_user
\* with an invalid user_id make no elicitation exchange and no Okta call.
C29_InvalidIdSkipsBody ==
    InvalidIdChecked =>
        /\ pc = "done"
        /\ result = Result("invalid_id", "str", id_arg)
        /\ outcome = NoOutcome
        /\ elicit_calls = 0
        /\ client_gets = 0
        /\ okta_calls = <<>>

C29_Witness ==
    /\ InvalidIdChecked /\ tool = "delete_deactivated_user"
    /\ id_arg = Str(<<"0", "0", "g", "%", "2", "F">>)
    /\ supports_elicitation(ctx)
    /\ result.kind = "invalid_id"
    /\ okta_calls = <<>>

\* max(20, min(100, n))
Clamp(n) ==
    LET low == IF n < MAX_LIMIT THEN n ELSE MAX_LIMIT
    IN  IF low > MIN_LIMIT THEN low ELSE MIN_LIMIT

\* C24 (as claimed): for each of list_users, list_groups, list_group_users,
\* get_logs, list_applications, list_policies, list_profile_mappings and
\* every integer limit n, the limit sent in the API call is
\* max(20, min(100, n)): out-of-range values are corrected, never rejected,
\* and clamping a clamped value changes nothing.
C24_SentLimitIsClamped ==
    (cpc = "returned" /\ fn \in LimitTools /\ arg # None) =>
        /\ ret = Num(Clamp(arg.n))
        /\ SentLimit(fn, ret) = ret

\* C25 (as claimed): extract_after_cursor never raises; it returns None for
\* a handle that is None, lacks has_next or answers has_next() false, None
\* for a locator that is None, unparsable or without an after parameter,
\* and otherwise the value of the locator's after parameter.
C25_ExtractNeverRaises ==
    (cpc = "returned" /\ fn = "extract_after_cursor") =>
        /\ ret.tag = "returned"
        /\ (arg.handle.kind # "handle" \/ ~arg.handle.has_next) => ret.value = None
        /\ arg.handle.next \in {Missing, None} => ret.value = None
        /\ arg.handle = Handle("handle", TRUE,
                               Str(<<"/x", "?", "after", "=", "C123", "&", "limit", "=", "50">>))
              => ret.value = Str(<<"C123">>)
        /\ arg.handle = Handle("handle", TRUE, Str(<<"/x", "?", "limit", "=", "50">>))
              => ret.value = None
        /\ arg.handle = Handle("handle", TRUE, Str(<<"//[", "?", "after", "=", "C5">>))
              => ret.value = None

\* an ID the claim calls valid: a non-empty string without forbidden
\* pattern (matched case-insensitively) made only of letters, digits and
\* _ - @ . +
HasForbiddenPattern(s) ==
    \E k \in 1..Len(FORBIDDEN_PATTERNS) :
        ContainsRun(Lower(s), Lower(FORBIDDEN_PATTERNS[k]))

WellFormedId(v) ==
    /\ v # None /\ v.tag = "str" /\ v.s # <<>>
    /\ ~HasForbiddenPattern(v.s)
    /\ \A i \in 1..Len(v.s) : v.s[i] \in ValidIdChars

\* C28 (as claimed): validate_okta_id returns its argument unchanged if and
\* only if it is a non-empty string with none of the forbidden patterns and
\* only letters, digits, _ - @ . + ; otherwise it raises InvalidOktaIdError,
\* with the 'forbidden' error for any ID containing a forbidden pattern.
C28_ReturnsIffWellFormed ==
    (cpc = "returned" /\ fn = "validate_okta_id") =>
        /\ (ret = Returned(arg)) <=> WellFormedId(arg)
        /\ ~WellFormedId(arg) => ret.tag = "raised"
        /\ (arg # None /\ arg.tag = "str" /\ HasForbiddenPattern(arg.s)) =>
                ret = Raised("forbidden")

\* the token the call found was stored and younger than expiry_duration
EntryFresh == entry.api_token # None /\ entry.token_age < expiry_duration

\* C30: is_valid_token returns true without refreshing or authenticating
\* when a token is stored and its age is below the expiry duration;
\* otherwise in device-flow mode it attempts refresh_access_token first and
\* calls authenticate only after the refresh returned false, in browserless
\* mode it calls authenticate without attempting a refresh, and its result
\* is then true iff a token is stored afterwards.
C30_TokenCheckOrder ==
    /\ apc \in {"returned", "exited"} =>
        /\ EntryFresh =>
            /\ auth_log = <<>>
            /\ valid = Returned(TRUE)
            /\ api_token = entry.api_token
        /\ (~EntryFresh /\ use_browserless_auth) =>
            /\ Len(auth_log) = 1
            /\ auth_log[1].op = "authenticate"
        /\ (~EntryFresh /\ ~use_browserless_auth) =>
            /\ Len(auth_log) \in 1..2
            /\ auth_log[1].op = "refresh_access_token"
            /\ Len(auth_log) = 1 => auth_log[1].returned # "False"
            /\ Len(auth_log) = 2 =>
                /\ auth_log[1].returned = "False"
                /\ auth_log[2].op = "authenticate"
        /\ (~EntryFresh /\ valid.tag = "returned") =>
            valid.value = (api_token # None)
    /\ apc = "authenticate" =>
        /\ ~EntryFresh
        /\ auth_log = IF use_browserless_auth THEN <<>>
                      ELSE <<AuthCall("refresh_access_token", "False")>>

C30_Witness ==
    /\ apc = "returned" /\ ~use_browserless_auth
    /\ entry.api_token = Str(<<"refreshed">>) /\ entry.token_age = expiry_duration
    /\ auth_log = <<AuthCall("refresh_access_token", "False"),
                    AuthCall("authenticate", "None")>>
    /\ idp.auth = "denied"
    /\ valid = Returned(TRUE)

\* a paginator is inside its loop
InLoop == fpc \in {"all_loop", "all_next", "logs_loop", "logs_request"}

\* what is left of a run: two steps for each page still allowed, one less
\* once the loop test has passed, nothing once the paginator is done
Remaining ==
    IF ~InLoop THEN 0
    ELSE 2 * (max_pages - pages_fetched)
            + (IF fpc \in {"all_loop", "logs_loop"} THEN 2 ELSE 1)

\* C31: every exhaustive fetch terminates: whatever the response handle
\* does (has_next() true forever included), paginate_all_results and
\* paginate_system_logs make at most max_pages - 1 next-page requests, each
\* step of the loop either accepts a page and increments pages_fetched or
\* stops: the steps left before the return strictly decrease.
C31_FetchTerminates ==
    /\ [](Paginating => Len(requests) <= max_pages - 1)
    /\ [][InLoop => Remaining' < Remaining]_vars
    /\ [][(InLoop /\ InLoop' /\ requests' # requests) =>
            pages_fetched' = pages_fetched + 1]_vars
    /\ [][(fpc \in {"all_done", "logs_done"}) => fpc' = "idle"]_vars

C31_Witness ==
    /\ fpc = "all_done" /\ max_pages = 3
    /\ Len(requests) = 2 /\ Len(served) = 3
    /\ \A k \in 1..3 : served[k].probe = "ok" /\ served[k].handle.has_next
    /\ run_info.stop_reason = MaxPagesReason(3)

\* paginate_system_logs is running or has just handed its result to get_logs
InLogsRun ==
    \/ fpc \in {"logs_loop", "logs_request"}
    \/ fpc = "logs_done" /\ run_info # None

\* C32: within one run of paginate_system_logs the page requests are
\* strictly sequential: the request for page k + 1 is issued only after the
\* response for page k was received and accepted, it carries as `after` the
\* cursor extracted from that most recent response, and no request is
\* issued while another one is unanswered.
C32_SequentialRequests ==
    /\ [](InLogsRun =>
            /\ Len(served) >= Len(requests) + 1
            /\ \A i \in 1..Len(requests) :
                    /\ requests[i].page = i + 1
                    /\ PagesAccepted(i)
                    /\ requests[i].after # None
                    /\ requests[i].after = extract_after_cursor(served[i].handle))
    /\ [][(InLogsRun /\ InLogsRun' /\ requests' # requests) =>
            /\ fpc = "logs_request"
            /\ Len(requests') = Len(requests) + 1
            /\ cur = Len(requests) + 1 /\ pages_fetched = cur
            /\ Len(served') >= Len(requests') + 1]_vars

C32_Witness ==
    /\ fpc = "logs_done" /\ ~IsError(logs_result)
    /\ Len(requests) = 2 /\ pages_fetched = 3
    /\ requests[1].after # requests[2].after
    /\ requests[2].after = extract_after_cursor(served[2].handle)

\* C33: every follow-up request of paginate_system_logs is made with the
\* original query parameters in which only `after` is set to the extracted
\* cursor: since, until, filter, q and limit are the caller's on every
\* page, no other key appears, and the caller's initial_params dict is the
\* same after every step of the run.
C33_OnlyAfterReplaced ==
    /\ [](InLogsRun =>
            \A i \in 1..Len(requests) :
                LET sent == requests[i].params.d
                    given == initial_params.d
                IN  /\ DOMAIN sent = DOMAIN given \cup {"after"}
                    /\ \A k \in DOMAIN given \ {"after"} : sent[k] = given[k]
                    /\ sent["after"] = extract_after_cursor(served[i].handle))
    /\ [][(InLogsRun /\ InLogsRun') => initial_params' = initial_params]_vars

C33_Witness ==
    /\ fpc = "logs_done" /\ Len(requests) = 2
    /\ "after" \in DOMAIN initial_params.d /\ "since" \in DOMAIN initial_params.d
    /\ \A i \in 1..2 :
            /\ requests[i].params.d["after"] # initial_params.d["after"]
            /\ requests[i].params.d["since"] = initial_params.d["since"]

\* the page requested last came back without error and empty
LastPageEmpty ==
    /\ Len(requests) >= 1
    /\ served[Len(requests) + 1].kind = "ok"
    /\ served[Len(requests) + 1].size = 0

\* the report of the run that has ended: paginate_all_results' dict, or the
\* pagination_info of get_logs' result
EndedReport ==
    IF fpc = "all_done" THEN run_info ELSE logs_result.pagination_info

\* C34: when a next-page fetch yields no error and an empty page, either
\* paginator stops without a further request, leaves the accumulated items
\* and pages_fetched as they were, and reports stopped_early = false and
\* stop_reason = null, whatever the handle says about more data.
C34_EmptyPageStopsQuietly ==
    /\ []((fpc \in {"all_done", "logs_done"} /\ run_info # None /\ LastPageEmpty) =>
            /\ EndedReport.stopped_early = FALSE
            /\ EndedReport.stop_reason = None
            /\ EndedReport.pages_fetched = Len(requests)
            /\ EndedReport.total_items = Len(all_items)
            /\ pages_fetched = Len(requests)
            /\ all_items = AccumulatedPages(Len(requests)))
    /\ [][(fpc \in {"all_next", "logs_request"} /\ LastPageEmpty') =>
            /\ fpc' \in {"all_done", "logs_done"}
            /\ all_items' = all_items
            /\ pages_fetched' = pages_fetched]_vars
    /\ [][(fpc \in {"all_done", "logs_done"}) => Len(requests') <= Len(requests)]_vars

C34_Witness ==
    /\ fpc = "all_done" /\ LastPageEmpty /\ Len(requests) = 2
    /\ served[2].handle.has_next /\ served[3].handle.has_next
    /\ served[3].probe = "ok"
    /\ run_info.stopped_early = FALSE /\ Len(all_items) = 2 * PageSize

\* has_next() raised in the loop condition on the handle held
LoopTestRaised ==
    /\ fpc = "all_done" /\ Len(requests) = pages_fetched - 1
    /\ served[cur].handle.kind = "handle" /\ served[cur].probe = "raise"

\* has_next() answered the loop condition and raised in the page-limit check
LimitCheckRaised ==
    /\ fpc = "all_done" /\ Len(requests) = pages_fetched - 1
    /\ served[cur].handle.kind = "handle" /\ served[cur].probe = "raise_later"
    /\ pages_fetched >= max_pages

\* the awaited next() raised
NextRaised ==
    /\ fpc = "all_done" /\ Len(requests) = pages_fetched
    /\ served[Len(requests) + 1].kind = "raise"

\* C35: paginate_all_results never raises: an exception of has_next() (in
\* the loop condition or in the page-limit check) or of next() is recorded
\* as stopped_early = true with a stop reason, every run ends in the return
\* of the report, and the report carries the items accumulated before with
\* pages_fetched and total_items matching them.
C35_ExceptionsAreReported ==
    /\ []((LoopTestRaised \/ LimitCheckRaised) =>
            /\ run_info.stopped_early /\ run_info.stop_reason = UnexpectedErrorReason)
    /\ [](NextRaised =>
            /\ run_info.stopped_early /\ run_info.stop_reason = ExceptionReason)
    /\ []((LoopTestRaised \/ LimitCheckRaised \/ NextRaised) =>
            /\ all_items = AccumulatedPages(pages_fetched)
            /\ run_info.pages_fetched = pages_fetched
            /\ run_info.total_items = Len(all_items))
    /\ [][(fpc \in {"all_loop", "all_next"}) =>
            fpc' \in {"all_loop", "all_next", "all_done"}]_vars
    /\ [][(fpc = "all_done") =>
            all_report' = [items |-> all_items, info |-> run_info]]_vars

C35_Witness ==
    /\ LimitCheckRaised /\ pages_fetched = 2 /\ max_pages = 2
    /\ served[2].handle.has_next
    /\ Len(all_items) = 2 * PageSize
    /\ run_info.stop_reason = UnexpectedErrorReason

\* a report dict is well formed: at least the first page is counted, and
\* stopped_early is set exactly when a stop reason is
ReportWellFormed(info) ==
    /\ info.pages_fetched >= 1
    /\ info.stopped_early <=> info.stop_reason # None

\* the reason the ended run recorded for a failure, or None without one
FailureReason ==
    IF Len(requests) >= 1 /\ Len(requests) = pages_fetched
          /\ served[Len(requests) + 1].kind = "err" THEN ApiErrorReason
    ELSE IF Len(requests) >= 1 /\ Len(requests) = pages_fetched
          /\ served[Len(requests) + 1].kind = "raise" THEN ExceptionReason
    ELSE IF LoopTestRaised \/ LimitCheckRaised THEN UnexpectedErrorReason
    ELSE None

\* C36: every report of paginate_all_results and of paginate_system_logs
\* has pages_fetched >= 1 and stopped_early true exactly when stop_reason is
\* not null, and a stop reason recorded for an error or an exception is the
\* one reported: the page-limit reason does not replace it.
C36_ReportsWellFormed ==
    /\ [](Paginating => ReportWellFormed(run_info))
    /\ [](all_report # NoResult => ReportWellFormed(all_report.info))
    /\ []((fpc = "logs_done" /\ run_info # None /\ ~IsError(logs_result)) =>
            ReportWellFormed(logs_result.pagination_info))
    /\ []((fpc \in {"all_done", "logs_done"} /\ run_info # None
                /\ ~(fpc = "logs_done" /\ IsError(logs_result))
                /\ FailureReason # None) =>
            EndedReport.stop_reason = FailureReason)

C36_Witness ==
    /\ fpc = "logs_done" /\ max_pages = 3 /\ Len(requests) = 2
    /\ served[3].kind = "err" /\ pages_fetched = 2
    /\ logs_result.pagination_info.stop_reason = ApiErrorReason
    /\ logs_result.pagination_info.stopped_early

\* the token-state of the manager and the keyring was written in this step
TokenWritten ==
    \/ api_token' # api_token
    \/ refresh_token' # refresh_token
    \/ token_age' < token_age

C38_ElicitAtMostOnce ==
    /\ [](elicit_calls <= 1)
    /\ []((pc # "idle" /\ ~supports_elicitation(ctx)) => elicit_calls = 0)
    /\ [][elicit_calls' > elicit_calls =>
            /\ elicit_calls = 0 /\ elicit_calls' = 1
            /\ pc = "elicit" /\ supports_elicitation(ctx)
            /\ pc' \notin {"probe", "elicit"}]_vars
    /\ [](elicit_calls = 1 => pc \notin {"probe", "elicit"})

C38_Witness ==
    /\ tool = "deactivate_user" /\ pc = "done"
    /\ ctx.elicit = Reply("other", None, "-")
    /\ elicit_calls = 1 /\ result.kind = "cancelled"

\* what confirm_delete_group / confirm_delete_application answers, from its
\* arguments and from how get_okta_client and the Okta call behave
ConfirmKind(t, id, c, o) ==
    IF t = "confirm_delete_group" /\ ValidateOktaIdRaises(id) THEN "invalid_id"
    ELSE IF c # DELETE THEN "cancelled"
    ELSE IF o.get_client = "raise" THEN "exception"
    ELSE CASE o.call = "ok" -> "success"
           [] o.call = "err" -> "api_error"
           [] OTHER -> "exception"

\* the Okta calls a confirm_* invocation has made when it ends
ConfirmCalls(t, id, c, o) ==
    IF ConfirmKind(t, id, c, o) \in {"invalid_id", "cancelled"} \/ o.get_client = "raise"
    THEN <<>>
    ELSE <<[op |-> OktaOp(t), id |-> id]>>

\* C39: the legacy two-call confirmation keeps no pending state on the
\* server: what confirm_delete_group / confirm_delete_application answers
\* and does is a function of its own arguments and of the Okta side's
\* behaviour, delete_group / delete_application issue no Okta call and
\* fetch no client, and once they have returned the server is in the state
\* it was in before they were called, so a later confirm_* call cannot tell
\* whether they were called.
C39_NoPendingState ==
    /\ []((pc = "done" /\ tool \in ConfirmTools) =>
            /\ result = Result(ConfirmKind(tool, id_arg, confirmation, okta),
                               ResultKey(tool, ConfirmKind(tool, id_arg, confirmation, okta)),
                               id_arg)
            /\ okta_calls = ConfirmCalls(tool, id_arg, confirmation, okta))
    /\ []((pc # "idle" /\ tool \in LegacyDeleteTools) =>
            okta_calls = <<>> /\ client_gets = 0 /\ elicit_calls = 0)
    /\ [][(pc = "done" /\ tool \in LegacyDeleteTools) => Idle']_vars
    /\ [][(pc = "idle") => Idle]_vars

C39_Witness ==
    /\ pc = "done" /\ tool = "confirm_delete_application"
    /\ confirmation = DELETE /\ id_arg = Str(<<"0", "0", "u", "1">>)
    /\ result.kind = "success"
    /\ okta_calls = <<[op |-> "delete_application", id |-> id_arg]>>


====
